---- MODULE Spec2Model ----
(***************************************************************************)
(* Order-book engine and cross-venue arbitrage detector of arb-finder.     *)
(*                                                                         *)
(* Decimal values are integers of the model: every price and quantity is   *)
(* a whole number of small magnitude.  Sequence counters are u64: the      *)
(* model writes a u64 value v as the integer congruent to it modulo 2^64   *)
(* that is nearest to zero, so that -1 stands for u64::MAX and             *)
(* wrapping_add(1) is +1 on that window.                                   *)
(***************************************************************************)
EXTENDS Integers, Sequences, FiniteSets, TLC

(***************************************************************************)
(* State                                                                   *)
(***************************************************************************)
VARIABLES
    \* one FastOrderBook, the last operation applied to it and, when that was
    \* a snapshot application, the snapshot and whether it was the first (1)
    \* or a repeated (2) application of that snapshot in succession
    book, lastOp, lastSnap, snapTimes,
    \* the level list given to the last operation when that was a replace_bids
    \* or a replace_asks
    lastLevels,
    \* OrderBookManager: the registry, the books it handed out, the cache,
    \* the three kinds of lock and the tasks running its operations
    mgr, books, heap, booksLock, bookLock, cache, cacheLock,
    pc, call, obs, started, created, removed, returned, partial,
    \* CrossExchangeArbitrageDetector, the core OrderBook of each venue, and
    \* the result of the last detect_opportunities call on them
    detector, orderbooks, opps, detected,
    \* two FastOrderBooks and the last query made of them
    bookA, bookB, query,
    \* the books the registry holds for one symbol, an AggregatedOrderBook over
    \* them and the last query made of it
    registry, aggregate, aggQuery,
    \* OrderBookEventProcessor, the books it is shown, the state of each book
    \* when it was last shown, and the last process_book_update call
    processor, observed, lastSeen, eventCall,
    \* one OrderBookCache with its max_size, the number of accesses made to it,
    \* the access at which each key was last put or read, and the last operation
    lru, lruClock, accessed, lruOp,
    \* one OrderBookCache with its ttl and the last_accessed of its entries, the
    \* reading of the wall clock, the reading at which each key was last put or
    \* read with success, and the last operation
    timed, wall, touched, timedOp,
    \* RateLimiter: its semaphore and window, the reading of the monotonic clock,
    \* the permits granted since the window was last reset, and the last call
    limiter, instant, grants, limiterOp,
    \* ConnectionHealthMonitor with its HeartbeatManager, the manager its health
    \* task was given, the ping task and the health task, whether the reconnect
    \* handler was invoked since a pong was last missed, and the monotonic clock
    monitor, spawned, pinger, healthTask, invoked, tokioNow

bookVars == <<book, lastOp, lastSnap, snapTimes, lastLevels>>
mgrVars == <<mgr, books, heap, booksLock, bookLock, cache, cacheLock,
             pc, call, obs, started, created, removed, returned, partial>>
arbVars == <<detector, orderbooks, opps, detected>>
queryVars == <<bookA, bookB, query>>
aggVars == <<registry, aggregate, aggQuery>>
eventVars == <<processor, observed, lastSeen, eventCall>>
lruVars == <<lru, lruClock, accessed, lruOp>>
ttlVars == <<timed, wall, touched, timedOp>>
rlVars == <<limiter, instant, grants, limiterOp>>
hbVars == <<monitor, spawned, pinger, healthTask, invoked, tokioNow>>
vars == <<bookVars, mgrVars, arbVars, queryVars, aggVars, eventVars, lruVars,
          ttlVars, rlVars, hbVars>>

(***************************************************************************)
(* Bounds of the model                                                     *)
(***************************************************************************)
MaxPrice == 2
MaxSeq == 3

\* prices and quantities an update may carry: nothing validates them, so a
\* negative and a zero value are among them
Prices == (-1)..MaxPrice
Qtys == {-1, 0, 1}
\* max_depth a book is constructed with
Depths == {1, 2}
Sides == {"Bid", "Ask"}

(***************************************************************************)
(* Option<T>: None is the empty set, Some(v) the singleton                 *)
(***************************************************************************)
None == {}
Some(v) == {v}
is_some(o) == o # {}
unwrap(o) == CHOOSE v \in o : TRUE
unwrap_or(o, d) == IF o = {} THEN d ELSE CHOOSE v \in o : TRUE

OrderCounts == {None}

(***************************************************************************)
(* BTreeMap<OrderedFloat<f64>, PriceLevel>: a function from the keys held  *)
(* to the levels, iterated in ascending key order                          *)
(***************************************************************************)
EmptyMap == [k \in {} |-> 0]
MapInsert(m, k, v) == [x \in (DOMAIN m) \cup {k} |-> IF x = k THEN v ELSE m[x]]
MapRemove(m, k) == [x \in (DOMAIN m) \ {k} |-> m[x]]
MinKey(m) == CHOOSE k \in DOMAIN m : \A j \in DOMAIN m : k <= j
MaxKey(m) == CHOOSE k \in DOMAIN m : \A j \in DOMAIN m : k >= j

\* Decimal::to_f64 of a price: every price of the model is an integer of
\* magnitude far below 2^53, which f64 holds exactly, and OrderedFloat
\* orders those as the integers are ordered.  The key is kept apart from
\* the level's own price, as the code keeps it.
ToF64(d) == d

is_zero(d) == d = 0

(***************************************************************************)
(* PriceLevel                                                              *)
(***************************************************************************)
with_order_count(price, quantity, order_count) ==
    [price |-> price, quantity |-> quantity, order_count |-> order_count]

InputLevels == {with_order_count(p, q, 1) : p \in Prices, q \in Qtys}

(***************************************************************************)
(* FastOrderBook                                                           *)
(***************************************************************************)
NewBook(max_depth) ==
    [bids |-> EmptyMap, asks |-> EmptyMap, sequence |-> 0, max_depth |-> max_depth]

increment_sequence(b) == [b EXCEPT !.sequence = b.sequence + 1]

set_sequence(b, sequence) == [b EXCEPT !.sequence = sequence]

RECURSIVE TrimBids(_, _)
TrimBids(m, max_depth) ==
    IF Cardinality(DOMAIN m) > max_depth
    THEN TrimBids(MapRemove(m, MinKey(m)), max_depth)
    ELSE m

RECURSIVE TrimAsks(_, _)
TrimAsks(m, max_depth) ==
    IF Cardinality(DOMAIN m) > max_depth
    THEN TrimAsks(MapRemove(m, MaxKey(m)), max_depth)
    ELSE m

\* a variant that cuts each side from its best end
trim_depth_BestFirst(b, side) ==
    IF side = "Bid"
    THEN [b EXCEPT !.bids = TrimAsks(b.bids, b.max_depth)]
    ELSE [b EXCEPT !.asks = TrimBids(b.asks, b.max_depth)]

trim_depth(b, side) ==
    IF side = "Bid"
    THEN [b EXCEPT !.bids = TrimBids(b.bids, b.max_depth)]
    ELSE [b EXCEPT !.asks = TrimAsks(b.asks, b.max_depth)]

\* a variant that stores the level whatever its quantity
BidsAfterUpdate_NoDelete(bids, price, quantity, order_count) ==
    MapInsert(bids, ToF64(price),
              with_order_count(price, quantity, unwrap_or(order_count, 1)))

BidsAfterUpdate(bids, price, quantity, order_count) ==
    LET price_key == ToF64(price) IN
    IF is_zero(quantity)
    THEN MapRemove(bids, price_key)
    ELSE MapInsert(bids, price_key,
                   with_order_count(price, quantity, unwrap_or(order_count, 1)))

\* a variant whose counter counts the changes of the side, not the calls
update_bid_CountsChanges(b, price, quantity, order_count) ==
    LET nb == trim_depth(
            [b EXCEPT !.bids = BidsAfterUpdate(b.bids, price, quantity, order_count)],
            "Bid")
    IN IF nb.bids = b.bids THEN nb ELSE increment_sequence(nb)

update_bid(b, price, quantity, order_count) ==
    increment_sequence(trim_depth(
        [b EXCEPT !.bids = BidsAfterUpdate(b.bids, price, quantity, order_count)],
        "Bid"))

AsksAfterUpdate(asks, price, quantity, order_count) ==
    LET price_key == ToF64(price) IN
    IF is_zero(quantity)
    THEN MapRemove(asks, price_key)
    ELSE MapInsert(asks, price_key,
                   with_order_count(price, quantity, unwrap_or(order_count, 1)))

update_ask(b, price, quantity, order_count) ==
    increment_sequence(trim_depth(
        [b EXCEPT !.asks = AsksAfterUpdate(b.asks, price, quantity, order_count)],
        "Ask"))

\* OrderBookUpdate
OrderBookUpdate(side, price, quantity, order_count) ==
    [side |-> side, price |-> price, quantity |-> quantity, order_count |-> order_count]

ApplyUpdate(b, u) ==
    IF u.side = "Bid"
    THEN update_bid(b, u.price, u.quantity, u.order_count)
    ELSE update_ask(b, u.price, u.quantity, u.order_count)

RECURSIVE batch_update(_, _)
batch_update(b, updates) ==
    IF updates = <<>>
    THEN b
    ELSE batch_update(ApplyUpdate(b, Head(updates)), Tail(updates))

RECURSIVE InsertLevels(_, _)
InsertLevels(m, levels) ==
    IF levels = <<>>
    THEN m
    ELSE InsertLevels(MapInsert(m, ToF64(Head(levels).price), Head(levels)),
                      Tail(levels))

\* a variant that takes the levels as increments of the levels it holds
RECURSIVE AddLevels(_, _)
AddLevels(m, levels) ==
    IF levels = <<>>
    THEN m
    ELSE LET l == Head(levels)
             k == ToF64(l.price)
             q == IF k \in DOMAIN m THEN m[k].quantity + l.quantity ELSE l.quantity
         IN AddLevels(MapInsert(m, k, [l EXCEPT !.quantity = q]), Tail(levels))

replace_bids_Adding(b, levels) ==
    increment_sequence(trim_depth(
        [b EXCEPT !.bids = AddLevels(b.bids, levels)], "Bid"))

replace_bids(b, levels) ==
    increment_sequence(trim_depth(
        [b EXCEPT !.bids = InsertLevels(EmptyMap, levels)], "Bid"))

\* a variant that writes the levels over the side it holds, without clearing
replace_asks_Keeping(b, levels) ==
    increment_sequence(trim_depth(
        [b EXCEPT !.asks = InsertLevels(b.asks, levels)], "Ask"))

replace_asks(b, levels) ==
    increment_sequence(trim_depth(
        [b EXCEPT !.asks = InsertLevels(EmptyMap, levels)], "Ask"))

best_bid(b) == IF DOMAIN b.bids = {} THEN None ELSE Some(b.bids[MaxKey(b.bids)])
best_ask(b) == IF DOMAIN b.asks = {} THEN None ELSE Some(b.asks[MinKey(b.asks)])

best_bid_price(b) == {l.price : l \in best_bid(b)}
best_ask_price(b) == {l.price : l \in best_ask(b)}

\* spread: ask - bid
spread(b) ==
    IF is_some(best_bid_price(b)) /\ is_some(best_ask_price(b))
    THEN Some(unwrap(best_ask_price(b)) - unwrap(best_bid_price(b)))
    ELSE None

\* a variant that forgets to halve
mid_price_Sum(b) ==
    IF is_some(best_bid_price(b)) /\ is_some(best_ask_price(b))
    THEN Some([num |-> unwrap(best_bid_price(b)) + unwrap(best_ask_price(b)), den |-> 1])
    ELSE None

\* mid_price: (bid + ask) / 2, kept as the exact quotient num / den
mid_price(b) ==
    IF is_some(best_bid_price(b)) /\ is_some(best_ask_price(b))
    THEN Some([num |-> unwrap(best_bid_price(b)) + unwrap(best_ask_price(b)), den |-> 2])
    ELSE None

is_crossed(b) ==
    /\ is_some(best_bid_price(b))
    /\ is_some(best_ask_price(b))
    /\ unwrap(best_bid_price(b)) >= unwrap(best_ask_price(b))

is_empty(b) == DOMAIN b.bids = {} /\ DOMAIN b.asks = {}

\* OrderBookSnapshot
OrderBookSnapshot(bids, asks, sequence) ==
    [bids |-> bids, asks |-> asks, sequence |-> sequence]

apply_to_book(s, b) ==
    set_sequence(replace_asks(replace_bids(b, s.bids), s.asks), s.sequence)

NoSnapshot == OrderBookSnapshot(<<>>, <<>>, 0)

\* get_bids / get_asks: the levels from the best price outward, at most
\* depth of them (max_depth of them when depth is None)
RECURSIVE TakeBest(_, _, _)
TakeBest(m, side, limit) ==
    IF limit = 0 \/ DOMAIN m = {}
    THEN <<>>
    ELSE LET k == IF side = "Bid" THEN MaxKey(m) ELSE MinKey(m)
         IN <<m[k]>> \o TakeBest(MapRemove(m, k), side, limit - 1)

get_bids(b, depth) == TakeBest(b.bids, "Bid", unwrap_or(depth, b.max_depth))
get_asks(b, depth) == TakeBest(b.asks, "Ask", unwrap_or(depth, b.max_depth))

\* the values calculate_checksum feeds to its hasher for a list of levels
RECURSIVE Hashed(_)
Hashed(levels) ==
    IF levels = <<>>
    THEN <<>>
    ELSE <<Head(levels).price, Head(levels).quantity>> \o Hashed(Tail(levels))

\* DefaultHasher::finish() as u32 of a stream of values: equal streams give
\* equal values; the model keeps different streams different, which is the
\* most a hash can tell apart
Finish(stream) == stream

ChecksumDepth == 10

\* a variant that hashes every level the book holds
calculate_checksum_AllLevels(b) ==
    Finish(Hashed(get_bids(b, None)) \o Hashed(get_asks(b, None)))

calculate_checksum(b) ==
    Finish(Hashed(get_bids(b, Some(ChecksumDepth)))
           \o Hashed(get_asks(b, Some(ChecksumDepth))))

validate_checksum(b, expected_checksum) == calculate_checksum(b) = expected_checksum

\* a variant that copies the best level of each side only
from_fast_orderbook_TopOnly(b) ==
    OrderBookSnapshot(get_bids(b, Some(1)), get_asks(b, Some(1)), b.sequence)

from_fast_orderbook(b) ==
    OrderBookSnapshot(get_bids(b, None), get_asks(b, None), b.sequence)

(***************************************************************************)
(* One FastOrderBook driven through its public operations                  *)
(***************************************************************************)
BookFrame == UNCHANGED <<mgrVars, arbVars, queryVars, aggVars, eventVars,
                         lruVars, ttlVars, rlVars, hbVars>>

NoOp == [op |-> "new", side |-> "Bid", price |-> 0, quantity |-> 0,
         present |-> FALSE, result |-> "Unit"]

L(p, q) == with_order_count(p, q, 1)

\* the level lists handed to replace_bids / replace_asks and carried by the
\* snapshots a venue sends: empty, one level, a zero-quantity level, a
\* repeated price, more levels than max_depth
LevelLists ==
    { <<>>,
      <<L(1, 1)>>,
      <<L(2, 0)>>,
      <<L(1, 1), L(2, 1)>>,
      <<L(2, 1), L(2, 0)>>,
      <<L(0, 1), L(1, 1), L(2, 1)>> }

\* the sequence a snapshot carries; -1 is u64::MAX
SnapSeqs == {-1, 1}

SnapLists ==
    { <<>>,
      <<L(2, 0)>>,
      <<L(1, 1), L(2, 1)>> }

Snapshots ==
    {OrderBookSnapshot(bl, al, sq) : bl \in SnapLists, al \in SnapLists, sq \in SnapSeqs}

Op(op, side, price, quantity, present) ==
    [op |-> op, side |-> side, price |-> price, quantity |-> quantity,
     present |-> present, result |-> "Unit"]

UpdateBid ==
    \E price \in Prices, quantity \in Qtys, order_count \in OrderCounts :
        /\ book.sequence < MaxSeq
        /\ book' = update_bid(book, price, quantity, order_count)
        /\ lastOp' = Op("update", "Bid", price, quantity,
                        ToF64(price) \in DOMAIN book.bids)
        /\ lastSnap' = NoSnapshot
        /\ snapTimes' = 0
        /\ lastLevels' = <<>>
        /\ BookFrame

UpdateAsk ==
    \E price \in Prices, quantity \in Qtys, order_count \in OrderCounts :
        /\ book.sequence < MaxSeq
        /\ book' = update_ask(book, price, quantity, order_count)
        /\ lastOp' = Op("update", "Ask", price, quantity,
                        ToF64(price) \in DOMAIN book.asks)
        /\ lastSnap' = NoSnapshot
        /\ snapTimes' = 0
        /\ lastLevels' = <<>>
        /\ BookFrame

ReplaceBids ==
    \E levels \in LevelLists :
        /\ book.sequence < MaxSeq
        /\ book' = replace_bids(book, levels)
        /\ lastOp' = Op("replace", "Bid", 0, 0, FALSE)
        /\ lastSnap' = NoSnapshot
        /\ snapTimes' = 0
        /\ lastLevels' = levels
        /\ BookFrame

ReplaceAsks ==
    \E levels \in LevelLists :
        /\ book.sequence < MaxSeq
        /\ book' = replace_asks(book, levels)
        /\ lastOp' = Op("replace", "Ask", 0, 0, FALSE)
        /\ lastSnap' = NoSnapshot
        /\ snapTimes' = 0
        /\ lastLevels' = levels
        /\ BookFrame

ApplySnapshot ==
    \E s \in Snapshots :
        /\ book' = apply_to_book(s, book)
        /\ lastOp' = Op("snapshot", "Bid", 0, 0, FALSE)
        /\ lastSnap' = s
        /\ snapTimes' = IF lastSnap = s THEN 2 ELSE 1
        /\ lastLevels' = <<>>
        /\ BookFrame

U(side, price, quantity) == OrderBookUpdate(side, price, quantity, None)

Batches ==
    { <<U("Bid", 1, 1), U("Ask", 2, 1)>>,
      <<U("Bid", 2, 1), U("Bid", 2, 0)>>,
      <<U("Ask", 1, 1), U("Ask", 0, 0), U("Bid", 0, 1)>> }

BatchUpdate ==
    \E updates \in Batches :
        /\ book.sequence + Len(updates) <= MaxSeq
        /\ book' = batch_update(book, updates)
        /\ lastOp' = Op("batch", "Bid", 0, 0, FALSE)
        /\ lastSnap' = NoSnapshot
        /\ snapTimes' = 0
        /\ lastLevels' = <<>>
        /\ BookFrame

\* the book is copied into a new one through a snapshot of itself, as a
\* consumer of get_snapshot does
RoundTrip ==
    \E max_depth \in Depths :
        /\ book' = apply_to_book(from_fast_orderbook(book), NewBook(max_depth))
        /\ lastOp' = Op("roundtrip", "Bid", 0, 0, FALSE)
        /\ lastSnap' = NoSnapshot
        /\ snapTimes' = 0
        /\ lastLevels' = <<>>
        /\ BookFrame

BookNext ==
    \/ UpdateBid
    \/ UpdateAsk
    \/ BatchUpdate
    \/ ReplaceBids
    \/ ReplaceAsks
    \/ ApplySnapshot
    \/ RoundTrip


(***************************************************************************)
(* Properties of one FastOrderBook (checked under BookSpec)                *)
(***************************************************************************)
Levels(m) == {m[k] : k \in DOMAIN m}
SideOf(b, side) == IF side = "Bid" THEN b.bids ELSE b.asks
BestOf(b, side) == IF side = "Bid" THEN best_bid(b) ELSE best_ask(b)

\* C1: right after an update with quantity 0 at price P on a side, that side
\* holds no level at P, and best_bid() / best_ask() of that side does not
\* return a level at P.
C1_DeletionIsAbsolute ==
    (lastOp.op = "update" /\ is_zero(lastOp.quantity)) =>
        /\ \A l \in Levels(SideOf(book, lastOp.side)) : l.price # lastOp.price
        /\ ToF64(lastOp.price) \notin DOMAIN SideOf(book, lastOp.side)
        /\ \A l \in BestOf(book, lastOp.side) : l.price # lastOp.price

\* a bid level that was present has just been deleted and another bid remains
C1_Witness ==
    /\ lastOp.op = "update"
    /\ lastOp.side = "Bid"
    /\ is_zero(lastOp.quantity)
    /\ lastOp.present
    /\ is_some(best_bid(book))

\* C2: every update_bid / update_ask call advances the sequence counter by
\* exactly one (modulo 2^64); a quantity-0 update for a price that is not
\* present leaves the levels of both sides unchanged and still advances it.
C2_SequenceCountsCalls ==
    [][ lastOp'.op = "update" =>
            /\ book'.sequence = book.sequence + 1
            /\ (is_zero(lastOp'.quantity) /\ ~lastOp'.present) =>
                   (book'.bids = book.bids /\ book'.asks = book.asks) ]_vars

\* a quantity-0 update for an absent bid price has been applied to a book
\* that holds levels, and the counter has advanced
C2_Witness ==
    /\ lastOp.op = "update"
    /\ lastOp.side = "Bid"
    /\ is_zero(lastOp.quantity)
    /\ ~lastOp.present
    /\ DOMAIN book.bids # {}
    /\ book.sequence >= 2

\* C3: an update whose price or quantity is negative is rejected: the levels
\* and the sequence counter are left unchanged and the caller receives an
\* error value.
C3_NegativeInputRejected ==
    [][ (lastOp'.op = "update" /\ (lastOp'.price < 0 \/ lastOp'.quantity < 0)) =>
            (book' = book /\ lastOp'.result = "Err") ]_vars

\* C4: every level stored on either side has a quantity strictly greater
\* than zero, whichever operation carried it.
C4_StoredQuantitiesPositive ==
    \A l \in Levels(book.bids) \cup Levels(book.asks) : l.quantity > 0

\* a < b as u64 values (-1 stands for u64::MAX)
u64_lt(a, b) == IF (a < 0) = (b < 0) THEN a < b ELSE b < 0

\* this step applies, for the second time in succession, the snapshot that
\* the step before it applied
SecondApplication == snapTimes = 1 /\ snapTimes' = 2 /\ lastSnap' = lastSnap

\* C13: applying the same OrderBookSnapshot a second time in succession
\* leaves the bid levels, the ask levels and calculate_checksum() as the first
\* application left them.
C13_SnapshotTwiceSameBook ==
    [][ SecondApplication =>
            /\ book'.bids = book.bids
            /\ book'.asks = book.asks
            /\ calculate_checksum(book') = calculate_checksum(book) ]_vars

\* a snapshot with more bid levels than max_depth and a non-empty ask side
\* has been applied twice
C13_Witness ==
    /\ snapTimes = 2
    /\ Len(lastSnap.bids) > book.max_depth
    /\ DOMAIN book.bids # {}
    /\ DOMAIN book.asks # {}

\* C14: the second application in succession of the same snapshot leaves the
\* sequence counter strictly greater than the first application left it.
C14_SecondApplicationAdvances ==
    [][ SecondApplication => u64_lt(book.sequence, book'.sequence) ]_vars

\* C16: the sequence counter read after an operation is never smaller than
\* the one read before it.
C16_SequenceNeverDecreases ==
    [][ ~u64_lt(book'.sequence, book.sequence) ]_vars

LevelCount(m) == Cardinality(DOMAIN m)

\* what the round trip is said to keep: best bid, best ask, the number of
\* levels of each side, calculate_checksum()
SameView(a, b) ==
    /\ best_bid(a) = best_bid(b)
    /\ best_ask(a) = best_ask(b)
    /\ LevelCount(a.bids) = LevelCount(b.bids)
    /\ LevelCount(a.asks) = LevelCount(b.asks)
    /\ calculate_checksum(a) = calculate_checksum(b)

\* C15 as stated: from_fast_orderbook(book) applied with apply_to_book to a
\* new book gives a book with the best bid, best ask, number of levels per
\* side and checksum of the original, whatever the new book.
C15_RoundTripKeepsView ==
    [][ lastOp'.op = "roundtrip" => SameView(book', book) ]_vars

\* C15, amended: it does when the new book's max_depth is at least the number
\* of levels on each side of the original; a smaller max_depth trims the
\* copy.
C15_RoundTripKeepsViewWithinDepth ==
    [][ (/\ lastOp'.op = "roundtrip"
         /\ book'.max_depth >= LevelCount(book.bids)
         /\ book'.max_depth >= LevelCount(book.asks)) => SameView(book', book) ]_vars

\* a book with two bid levels and an ask has come out of a round trip
C15_Witness ==
    /\ lastOp.op = "roundtrip"
    /\ LevelCount(book.bids) = 2
    /\ LevelCount(book.asks) >= 1

BothSides(b) == DOMAIN b.bids # {} /\ DOMAIN b.asks # {}

\* best_bid().price <= mid_price() <= best_ask().price
MidOrdered(b) ==
    LET mid == unwrap(mid_price(b)) IN
    /\ unwrap(best_bid(b)).price * mid.den <= mid.num
    /\ mid.num <= unwrap(best_ask(b)).price * mid.den

\* C17 as stated: on a book with both sides non-empty the ordering
\* best bid <= mid price <= best ask holds if and only if is_crossed() is
\* false.
C17_OrderedIffNotCrossed ==
    BothSides(book) => (MidOrdered(book) <=> ~is_crossed(book))

\* C17, amended: the ordering holds whenever the book is not crossed and
\* fails only on a crossed book, but it fails exactly when the best bid is
\* strictly above the best ask; on a book whose best bid equals its best ask
\* is_crossed() is true and the ordering holds.
C17_OrderedIffBidNotAboveAsk ==
    BothSides(book) =>
        /\ ~is_crossed(book) => MidOrdered(book)
        /\ ~MidOrdered(book) => is_crossed(book)
        /\ MidOrdered(book) <=> unwrap(best_bid(book)).price <= unwrap(best_ask(book)).price

\* a crossed book whose mid price lies outside the two best prices
C17_Witness ==
    /\ BothSides(book)
    /\ is_crossed(book)
    /\ ~MidOrdered(book)
    /\ lastOp.op = "update"

\* the keys of the levels of a list
KeysOf(levels) == {ToF64(levels[i].price) : i \in 1..Len(levels)}

\* the n best-priced of a set of keys: the highest for bids, the lowest for
\* asks
BestKeys(keys, side, n) ==
    {k \in keys :
        Cardinality({j \in keys : IF side = "Bid" THEN j > k ELSE j < k}) < n}

\* C18: after every update_bid/update_ask and replace_bids/replace_asks each
\* side holds at most max_depth levels, and what an insertion beyond
\* max_depth evicts is the worst-priced level of the side: the prices kept
\* are the max_depth best of the prices held before together with the one
\* inserted (of the prices of the list, for a replacement).
C18_DepthKeepsBestLevels ==
    [][ LET side == lastOp'.side
            kept == DOMAIN SideOf(book', side)
        IN /\ lastOp'.op \in {"update", "replace"} =>
                 /\ LevelCount(book'.bids) <= book'.max_depth
                 /\ LevelCount(book'.asks) <= book'.max_depth
           /\ (lastOp'.op = "update" /\ ~is_zero(lastOp'.quantity)) =>
                 kept = BestKeys(DOMAIN SideOf(book, side) \cup {ToF64(lastOp'.price)},
                                 side, book.max_depth)
           /\ lastOp'.op = "replace" =>
                 kept = BestKeys(KeysOf(lastLevels'), side, book.max_depth) ]_vars

\* a replacement with more levels than max_depth has been cut to max_depth
C18_Witness ==
    /\ lastOp.op = "replace"
    /\ lastOp.side = "Bid"
    /\ Cardinality(KeysOf(lastLevels)) > book.max_depth
    /\ LevelCount(book.bids) = book.max_depth
    /\ book.max_depth = 2

(***************************************************************************)
(* OrderBookCache: entries is the HashMap<CacheKey, CacheEntry>; order      *)
(* lists the cached keys from the least to the most recently accessed,     *)
(* which is the order of the entries' last_accessed timestamps             *)
(***************************************************************************)
NewCache == [entries |-> EmptyMap, order |-> <<>>]

SeqWithout(s, k) == SelectSeq(s, LAMBDA x : x # k)

\* a variant that removes the most recently accessed entry
evict_lru_Newest(c) ==
    IF c.order = <<>>
    THEN c
    ELSE [entries |-> MapRemove(c.entries, c.order[Len(c.order)]),
          order |-> SubSeq(c.order, 1, Len(c.order) - 1)]

evict_lru(c) ==
    IF c.order = <<>>
    THEN c
    ELSE [entries |-> MapRemove(c.entries, Head(c.order)), order |-> Tail(c.order)]

put(c, max_size, key, entry) ==
    LET c1 == IF Cardinality(DOMAIN c.entries) >= max_size /\ key \notin DOMAIN c.entries
              THEN evict_lru(c)
              ELSE c
    IN [entries |-> MapInsert(c1.entries, key, entry),
        order |-> Append(SeqWithout(c1.order, key), key)]

invalidate(c, key) ==
    [entries |-> MapRemove(c.entries, key), order |-> SeqWithout(c.order, key)]

clear(c) == NewCache

\* a get that finds a live entry refreshes its last_accessed
get_hit(c, key) == [c EXCEPT !.order = Append(SeqWithout(c.order, key), key)]

(***************************************************************************)
(* OrderBookManager run by concurrent tasks.  A task holds a tokio RwLock   *)
(* from the step that acquires it to the step that drops its guard; a task  *)
(* whose acquiring step is not enabled is waiting for that lock.            *)
(***************************************************************************)
MaxMgrOps == 3

Procs == {"t1", "t2"}
NoProc == "none"
Venues == {"Binance", "Coinbase"}
Symbols == {"BTC/USDT"}
BookKey(venue_id, symbol) == <<venue_id, symbol>>
Keys == {BookKey(v, s) : v \in Venues, s \in Symbols}

MgrBatches == { <<U("Bid", 1, 1), U("Ask", 2, 1)>> }
MgrSnapshots == { OrderBookSnapshot(<<L(2, 1)>>, <<L(1, 1)>>, 1) }

MgrConfigs ==
    {[max_depth |-> 2, has_cache |-> FALSE, max_size |-> 0]}
    \cup {[max_depth |-> 2, has_cache |-> TRUE, max_size |-> n] : n \in {1, 2}}

FreeLock == [writer |-> NoProc, readers |-> {}]
Idle == "idle"
NoCall == [name |-> "none", key |-> BookKey("", ""), updates |-> <<>>,
           snapshot |-> NoSnapshot, idx |-> 0, h |-> 0, slow |-> FALSE, todo |-> {}]
NoObs == [src |-> "none", partial |-> FALSE]

MgrStart(config) ==
    /\ mgr = config
    /\ books = EmptyMap
    /\ heap = <<>>
    /\ booksLock = FreeLock
    /\ bookLock = <<>>
    /\ cache = NewCache
    /\ cacheLock = NoProc
    /\ pc = [p \in Procs |-> Idle]
    /\ call = [p \in Procs |-> NoCall]
    /\ obs = [p \in Procs |-> NoObs]
    /\ started = 0
    /\ created = [k \in Keys |-> 0]
    /\ removed = [k \in Keys |-> FALSE]
    /\ returned = [k \in Keys |-> {}]
    /\ partial = <<>>


MgrFrame == UNCHANGED <<bookVars, arbVars, queryVars, aggVars, eventVars,
                        lruVars, ttlVars, rlVars, hbVars>>

FirstLabel(name) ==
    CASE name \in {"get_or_create_book", "apply_updates", "apply_snapshot"} -> "goc_read"
      [] name = "get_snapshot" -> "gb_read"
      [] name = "cache_get" -> "cg_get"
      [] name = "remove_book" -> "rm_write"
      [] name = "clear_venue" -> "cv_write"
      [] name = "clear_all" -> "ca_write"
      [] OTHER -> "hc_read"

\* a task calls an operation of the manager
Begin(p, name, key, updates, snapshot) ==
    /\ pc[p] = Idle
    /\ started < MaxMgrOps
    /\ started' = started + 1
    /\ call' = [call EXCEPT ![p] = [NoCall EXCEPT !.name = name, !.key = key,
                                       !.updates = updates, !.snapshot = snapshot]]
    /\ pc' = [pc EXCEPT ![p] = FirstLabel(name)]
    /\ obs' = [obs EXCEPT ![p] = NoObs]
    /\ UNCHANGED <<mgr, books, heap, booksLock, bookLock, cache, cacheLock,
                   created, removed, returned, partial>>
    /\ MgrFrame

CallGetOrCreateBook(p) ==
    \E key \in Keys : Begin(p, "get_or_create_book", key, <<>>, NoSnapshot)
CallApplyUpdates(p) ==
    \E key \in Keys, updates \in MgrBatches : Begin(p, "apply_updates", key, updates, NoSnapshot)
CallApplySnapshot(p) ==
    \E key \in Keys, s \in MgrSnapshots : Begin(p, "apply_snapshot", key, <<>>, s)
CallGetSnapshot(p) ==
    \E key \in Keys : Begin(p, "get_snapshot", key, <<>>, NoSnapshot)
CallCacheGet(p) ==
    /\ mgr.has_cache
    /\ \E key \in Keys : Begin(p, "cache_get", key, <<>>, NoSnapshot)
CallRemoveBook(p) ==
    \E key \in Keys : Begin(p, "remove_book", key, <<>>, NoSnapshot)
CallHealthCheck(p) ==
    Begin(p, "health_check", BookKey("", ""), <<>>, NoSnapshot)
CallClearVenue(p) ==
    \E venue_id \in Venues : Begin(p, "clear_venue", BookKey(venue_id, ""), <<>>, NoSnapshot)
CallClearAll(p) ==
    Begin(p, "clear_all", BookKey("", ""), <<>>, NoSnapshot)

Return(p) ==
    /\ pc' = [pc EXCEPT ![p] = Idle]
    /\ call' = [call EXCEPT ![p] = NoCall]

\* where get_or_create_book returns to
AfterGoc(name) == IF name = "get_or_create_book" THEN Idle ELSE "w_lock"

GocReturn(p, h) ==
    /\ returned' = [returned EXCEPT ![call[p].key] = @ \cup {h}]
    /\ pc' = [pc EXCEPT ![p] = AfterGoc(call[p].name)]
    /\ call' = [call EXCEPT ![p] = IF AfterGoc(call[p].name) = Idle
                                   THEN NoCall
                                   ELSE [call[p] EXCEPT !.h = h]]

\* a variant that keeps the read guard over the rest of the function
drop_books_Forgotten(readers, p) == readers

\* line 54: drop(books), the read guard taken at line 50
drop_books(readers, p) == readers \ {p}

\* get_or_create_book, lines 50-54: the lookup under the registry's read lock
GocRead(p) ==
    /\ pc[p] = "goc_read"
    /\ booksLock.writer = NoProc
    /\ IF call[p].key \in DOMAIN books
       THEN /\ GocReturn(p, books[call[p].key])
            /\ UNCHANGED booksLock
       ELSE /\ pc' = [pc EXCEPT ![p] = "goc_write"]
            /\ call' = [call EXCEPT ![p].slow = TRUE]
            /\ booksLock' = [booksLock EXCEPT !.readers = drop_books(@ \cup {p}, p)]
            /\ UNCHANGED returned
    /\ UNCHANGED <<mgr, books, heap, bookLock, cache, cacheLock,
                   obs, started, created, removed, partial>>
    /\ MgrFrame

\* line 57: self.books.write().await
GocWrite(p) ==
    /\ pc[p] = "goc_write"
    /\ booksLock = FreeLock
    /\ booksLock' = [booksLock EXCEPT !.writer = p]
    /\ pc' = [pc EXCEPT ![p] = "goc_create"]
    /\ UNCHANGED <<mgr, books, heap, bookLock, cache, cacheLock, call,
                   obs, started, created, removed, returned, partial>>
    /\ MgrFrame

\* a variant that inserts without looking again
double_check_Skipped(bks, key) == FALSE

\* line 60: the second lookup, under the write lock
double_check(bks, key) == key \in DOMAIN bks

\* lines 60-68, under the write lock.  The read lock taken on the new book
\* for the log line is free: no other task can hold a handle to it yet.
GocCreate(p) ==
    /\ pc[p] = "goc_create"
    /\ booksLock.writer = p
    /\ IF double_check(books, call[p].key)
       THEN /\ GocReturn(p, books[call[p].key])
            /\ UNCHANGED <<books, heap, bookLock, partial, created>>
       ELSE /\ heap' = Append(heap, NewBook(mgr.max_depth))
            /\ bookLock' = Append(bookLock, FreeLock)
            /\ partial' = Append(partial, FALSE)
            /\ books' = MapInsert(books, call[p].key, Len(heap) + 1)
            /\ created' = [created EXCEPT ![call[p].key] = @ + 1]
            /\ GocReturn(p, Len(heap) + 1)
    /\ booksLock' = FreeLock
    /\ UNCHANGED <<mgr, cache, cacheLock, obs, started, removed>>
    /\ MgrFrame

\* a variant whose write guard is a temporary, dropped after each statement
book_guard_Temporary(p) == NoProc

\* lines 83 and 99: let mut book_guard = book.write().await; the guard lives
\* to the end of the function
book_guard(p) == p

WLock(p) ==
    /\ pc[p] = "w_lock"
    /\ bookLock[call[p].h] = FreeLock
    /\ bookLock' = [bookLock EXCEPT ![call[p].h].writer = book_guard(p)]
    /\ pc' = [pc EXCEPT ![p] = "w_apply"]
    /\ UNCHANGED <<mgr, books, heap, booksLock, cache, cacheLock, call,
                   obs, started, created, removed, returned, partial>>
    /\ MgrFrame

\* the statements run under the guard: the updates of the batch one after
\* the other, or replace_bids and then replace_asks with set_sequence
ApplySteps(c) == IF c.name = "apply_updates" THEN Len(c.updates) ELSE 2

StepApply(b, c, i) ==
    IF c.name = "apply_updates"
    THEN ApplyUpdate(b, c.updates[i])
    ELSE IF i = 1
         THEN replace_bids(b, c.snapshot.bids)
         ELSE set_sequence(replace_asks(b, c.snapshot.asks), c.snapshot.sequence)

WApply(p) ==
    LET c == call[p]
        i == c.idx + 1
    IN /\ pc[p] = "w_apply"
       /\ bookLock[c.h].writer = book_guard(p)
       /\ bookLock[c.h].readers = {}
       /\ heap' = [heap EXCEPT ![c.h] = StepApply(@, c, i)]
       /\ partial' = [partial EXCEPT ![c.h] = i < ApplySteps(c)]
       /\ call' = [call EXCEPT ![p].idx = i]
       /\ pc' = [pc EXCEPT ![p] = IF i < ApplySteps(c) THEN "w_apply"
                                  ELSE IF mgr.has_cache THEN "put_lock"
                                  ELSE "w_unlock"]
       /\ UNCHANGED <<mgr, books, booksLock, bookLock, cache, cacheLock,
                      obs, started, created, removed, returned>>
       /\ MgrFrame

\* cache.put, line 66: self.cache.write().await, with the book guard held
PutLock(p) ==
    /\ pc[p] = "put_lock"
    /\ cacheLock = NoProc
    /\ cacheLock' = p
    /\ pc' = [pc EXCEPT ![p] = "put"]
    /\ UNCHANGED <<mgr, books, heap, booksLock, bookLock, cache, call,
                   obs, started, created, removed, returned, partial>>
    /\ MgrFrame

Put(p) ==
    /\ pc[p] = "put"
    /\ cacheLock = p
    /\ cache' = put(cache, mgr.max_size, call[p].key,
                    [book |-> heap[call[p].h], partial |-> partial[call[p].h]])
    /\ cacheLock' = NoProc
    /\ pc' = [pc EXCEPT ![p] = "w_unlock"]
    /\ UNCHANGED <<mgr, books, heap, booksLock, bookLock, call,
                   obs, started, created, removed, returned, partial>>
    /\ MgrFrame

\* the end of apply_updates / apply_snapshot drops book_guard
WUnlock(p) ==
    /\ pc[p] = "w_unlock"
    /\ bookLock' = [bookLock EXCEPT ![call[p].h].writer = NoProc]
    /\ Return(p)
    /\ UNCHANGED <<mgr, books, heap, booksLock, cache, cacheLock,
                   obs, started, created, removed, returned, partial>>
    /\ MgrFrame

\* get_snapshot: get_book looks the key up under the registry's read lock
GbRead(p) ==
    /\ pc[p] = "gb_read"
    /\ booksLock.writer = NoProc
    /\ IF call[p].key \in DOMAIN books
       THEN /\ pc' = [pc EXCEPT ![p] = "r_lock"]
            /\ call' = [call EXCEPT ![p].h = books[call[p].key]]
       ELSE Return(p)
    /\ UNCHANGED <<mgr, books, heap, booksLock, bookLock, cache, cacheLock,
                   obs, started, created, removed, returned, partial>>
    /\ MgrFrame

\* get_snapshot, line 194: book.read().await
RLock(p) ==
    /\ pc[p] = "r_lock"
    /\ bookLock[call[p].h].writer = NoProc
    /\ bookLock' = [bookLock EXCEPT ![call[p].h].readers = @ \cup {p}]
    /\ pc' = [pc EXCEPT ![p] = "r_read"]
    /\ UNCHANGED <<mgr, books, heap, booksLock, cache, cacheLock, call,
                   obs, started, created, removed, returned, partial>>
    /\ MgrFrame

\* line 195: the reader copies the book it sees and drops its guard
RRead(p) ==
    /\ pc[p] = "r_read"
    /\ obs' = [obs EXCEPT ![p] = [src |-> "book", partial |-> partial[call[p].h]]]
    /\ bookLock' = [bookLock EXCEPT ![call[p].h].readers = @ \ {p}]
    /\ Return(p)
    /\ UNCHANGED <<mgr, books, heap, booksLock, cache, cacheLock,
                   started, created, removed, returned, partial>>
    /\ MgrFrame

\* OrderBookCache::get by a reader of the cached copy; whether the entry's
\* ttl has run out depends on the time that has passed
CgGet(p) ==
    /\ pc[p] = "cg_get"
    /\ cacheLock = NoProc
    /\ IF call[p].key \in DOMAIN cache.entries
       THEN \E live \in BOOLEAN :
              IF live
              THEN /\ cache' = get_hit(cache, call[p].key)
                   /\ obs' = [obs EXCEPT ![p] =
                                [src |-> "cache",
                                 partial |-> cache.entries[call[p].key].partial]]
              ELSE /\ cache' = invalidate(cache, call[p].key)
                   /\ UNCHANGED obs
       ELSE UNCHANGED <<cache, obs>>
    /\ Return(p)
    /\ UNCHANGED <<mgr, books, heap, booksLock, bookLock, cacheLock,
                   started, created, removed, returned, partial>>
    /\ MgrFrame

\* remove_book, line 121: self.books.write().await
RmWrite(p) ==
    /\ pc[p] = "rm_write"
    /\ booksLock = FreeLock
    /\ booksLock' = [booksLock EXCEPT !.writer = p]
    /\ pc' = [pc EXCEPT ![p] = "rm_remove"]
    /\ UNCHANGED <<mgr, books, heap, bookLock, cache, cacheLock, call,
                   obs, started, created, removed, returned, partial>>
    /\ MgrFrame

\* lines 122-131
RmRemove(p) ==
    LET found == call[p].key \in DOMAIN books IN
    /\ pc[p] = "rm_remove"
    /\ books' = MapRemove(books, call[p].key)
    /\ removed' = [removed EXCEPT ![call[p].key] = @ \/ found]
    /\ IF found /\ mgr.has_cache
       THEN /\ pc' = [pc EXCEPT ![p] = "rm_invalidate"]
            /\ UNCHANGED <<call, booksLock>>
       ELSE /\ Return(p)
            /\ booksLock' = FreeLock
    /\ UNCHANGED <<mgr, heap, bookLock, cache, cacheLock,
                   obs, started, created, returned, partial>>
    /\ MgrFrame

\* line 129: cache.invalidate, with the registry's write lock held
RmInvalidate(p) ==
    /\ pc[p] = "rm_invalidate"
    /\ cacheLock = NoProc
    /\ cache' = invalidate(cache, call[p].key)
    /\ booksLock' = FreeLock
    /\ Return(p)
    /\ UNCHANGED <<mgr, books, heap, bookLock, cacheLock,
                   obs, started, created, removed, returned, partial>>
    /\ MgrFrame

\* clear_venue, lines 137-138: the registry's write lock, retain, and the
\* guard dropped at the end of the function; the cache is not touched
ClearVenue(p) ==
    LET gone == {k \in DOMAIN books : k[1] = call[p].key[1]} IN
    /\ pc[p] = "cv_write"
    /\ booksLock = FreeLock
    /\ books' = [k \in DOMAIN books \ gone |-> books[k]]
    /\ removed' = [k \in Keys |-> removed[k] \/ k \in gone]
    /\ Return(p)
    /\ UNCHANGED <<mgr, heap, booksLock, bookLock, cache, cacheLock,
                   obs, started, created, returned, partial>>
    /\ MgrFrame

\* clear_all, lines 143-144: the registry's write lock and books.clear()
CaWrite(p) ==
    /\ pc[p] = "ca_write"
    /\ booksLock = FreeLock
    /\ books' = EmptyMap
    /\ removed' = [k \in Keys |-> removed[k] \/ k \in DOMAIN books]
    /\ IF mgr.has_cache
       THEN /\ booksLock' = [booksLock EXCEPT !.writer = p]
            /\ pc' = [pc EXCEPT ![p] = "ca_clear"]
            /\ UNCHANGED call
       ELSE /\ Return(p)
            /\ UNCHANGED booksLock
    /\ UNCHANGED <<mgr, heap, bookLock, cache, cacheLock,
                   obs, started, created, returned, partial>>
    /\ MgrFrame

\* line 147: cache.clear(), with the registry's write lock held
CaClear(p) ==
    /\ pc[p] = "ca_clear"
    /\ cacheLock = NoProc
    /\ cache' = clear(cache)
    /\ booksLock' = FreeLock
    /\ Return(p)
    /\ UNCHANGED <<mgr, books, heap, bookLock, cacheLock,
                   obs, started, created, removed, returned, partial>>
    /\ MgrFrame

\* health_check, line 199: the registry's read lock, held over the loop
HcRead(p) ==
    /\ pc[p] = "hc_read"
    /\ booksLock.writer = NoProc
    /\ booksLock' = [booksLock EXCEPT !.readers = @ \cup {p}]
    /\ call' = [call EXCEPT ![p].todo = {books[k] : k \in DOMAIN books}]
    /\ pc' = [pc EXCEPT ![p] = "hc_book"]
    /\ UNCHANGED <<mgr, books, heap, bookLock, cache, cacheLock,
                   obs, started, created, removed, returned, partial>>
    /\ MgrFrame

\* lines 204-213: one book of the loop, read under its read lock
HcBook(p) ==
    /\ pc[p] = "hc_book"
    /\ \E id \in call[p].todo :
          /\ bookLock[id].writer = NoProc
          /\ call' = [call EXCEPT ![p].todo = @ \ {id}]
    /\ UNCHANGED <<mgr, books, heap, booksLock, bookLock, cache, cacheLock, pc,
                   obs, started, created, removed, returned, partial>>
    /\ MgrFrame

HcDone(p) ==
    /\ pc[p] = "hc_book"
    /\ call[p].todo = {}
    /\ booksLock' = [booksLock EXCEPT !.readers = @ \ {p}]
    /\ Return(p)
    /\ UNCHANGED <<mgr, books, heap, bookLock, cache, cacheLock,
                   obs, started, created, removed, returned, partial>>
    /\ MgrFrame

MgrNext ==
    \E p \in Procs :
        \/ CallGetOrCreateBook(p)
        \/ CallApplyUpdates(p)
        \/ CallApplySnapshot(p)
        \/ CallGetSnapshot(p)
        \/ CallCacheGet(p)
        \/ CallRemoveBook(p)
        \/ CallHealthCheck(p)
        \/ CallClearVenue(p)
        \/ CallClearAll(p)
        \/ GocRead(p)
        \/ GocWrite(p)
        \/ GocCreate(p)
        \/ WLock(p)
        \/ WApply(p)
        \/ PutLock(p)
        \/ Put(p)
        \/ WUnlock(p)
        \/ GbRead(p)
        \/ RLock(p)
        \/ RRead(p)
        \/ CgGet(p)
        \/ RmWrite(p)
        \/ RmRemove(p)
        \/ RmInvalidate(p)
        \/ ClearVenue(p)
        \/ CaWrite(p)
        \/ CaClear(p)
        \/ HcRead(p)
        \/ HcBook(p)
        \/ HcDone(p)

(***************************************************************************)
(* Claims about the manager                                                 *)
(***************************************************************************)
IsUpdateOp(c) == c.name \in {"apply_updates", "apply_snapshot"}

\* C5: a batch given to apply_updates, and the two-sided replacement of
\* apply_snapshot, is atomic for readers: neither a reader that took the
\* book's read lock nor a reader of the cached copy ever sees a book to which
\* only a proper non-empty prefix of the batch, or only one side of the
\* snapshot, has been applied.
C5_BatchAtomicForReaders ==
    /\ \A p \in Procs : ~obs[p].partial
    /\ \A k \in DOMAIN cache.entries : ~cache.entries[k].partial

\* a reader waits for the read lock of a book whose batch is half applied
C5_Witness ==
    \E p \in Procs, q \in Procs :
        /\ pc[p] = "r_lock"
        /\ pc[q] = "w_apply"
        /\ call[q].idx = 1
        /\ call[p].h = call[q].h
        /\ partial[call[p].h]

\* C6: concurrent get_or_create_book calls for one key that is not removed
\* meanwhile create exactly one book, and every caller gets a handle to that
\* same book, the one the registry holds (so a mutation made through one
\* handle is seen through every other).
C6_OneBookPerKey ==
    \A k \in Keys :
        ~removed[k] =>
            /\ created[k] <= 1
            /\ returned[k] # {} =>
                  /\ created[k] = 1
                  /\ k \in DOMAIN books
                  /\ returned[k] = {books[k]}

\* two tasks both missed the key under the read lock, both went through the
\* write lock, and hold the same handle
C6_Witness ==
    \E p \in Procs, q \in Procs :
        /\ p # q
        /\ call[p].slow
        /\ call[q].slow
        /\ call[p].key = call[q].key
        /\ call[p].h # 0
        /\ call[p].h = call[q].h
        /\ ~removed[call[p].key]

\* the side m holds exactly the levels of the list: the max_depth best of
\* its prices and, at each of them, the level the list gives last
HoldsExactly(m, levels, side, max_depth) ==
    /\ DOMAIN m = BestKeys(KeysOf(levels), side, max_depth)
    /\ \A i \in 1..Len(levels) :
           (/\ ToF64(levels[i].price) \in DOMAIN m
            /\ \A j \in (i + 1)..Len(levels) : levels[j].price # levels[i].price)
           => m[ToF64(levels[i].price)] = levels[i]

\* C28: after apply_snapshot(venue, s) the book for (venue, s.symbol),
\* created if it was absent, holds on both sides exactly the levels of s (up
\* to max_depth per side) with no level surviving from before, and its
\* sequence equals s.sequence; the books of every other key are unchanged.
\* Stated of the step that completes the application, under the book's
\* write lock: the book written is the one the registry handed out for the
\* key, and still the registry's unless a remove_book took it out meanwhile.
C28_SnapshotReplacesBook ==
    [][\A p \in Procs :
         (pc[p] = "w_apply" /\ call[p].name = "apply_snapshot"
          /\ call'[p].idx # call[p].idx) =>
            LET c == call[p]
                b == heap'[c.h]
            IN /\ \A h \in DOMAIN heap : h # c.h => heap'[h] = heap[h]
               /\ books' = books
               /\ c.h \in returned[c.key]
               /\ ~removed[c.key] => (c.key \in DOMAIN books /\ books[c.key] = c.h)
               /\ pc'[p] # "w_apply" =>
                     /\ HoldsExactly(b.bids, c.snapshot.bids, "Bid", mgr.max_depth)
                     /\ HoldsExactly(b.asks, c.snapshot.asks, "Ask", mgr.max_depth)
                     /\ b.sequence = c.snapshot.sequence]_vars

\* a snapshot has been applied to the book of one key while the registry
\* holds a book with levels for another key
C28_Witness ==
    \E p \in Procs :
        /\ call[p].name = "apply_snapshot"
        /\ call[p].idx = 2
        /\ \E key \in DOMAIN books :
               /\ key # call[p].key
               /\ books[key] # call[p].h
               /\ ~is_empty(heap[books[key]])

\* task p waits for a lock that task q holds
WaitsOn(p, q) ==
    \/ pc[p] = "goc_read" /\ booksLock.writer = q
    \/ pc[p] = "goc_write" /\ booksLock.writer = q
    \/ pc[p] = "goc_write" /\ q \in booksLock.readers
    \/ pc[p] = "w_lock" /\ bookLock[call[p].h].writer = q
    \/ pc[p] = "put_lock" /\ cacheLock = q

\* C7: two concurrent update operations on different (venue, symbol) books
\* never block each other: neither waits for a lock the other holds.
C7_DifferentBooksNeverBlock ==
    \A p \in Procs, q \in Procs :
        (/\ p # q
         /\ IsUpdateOp(call[p])
         /\ IsUpdateOp(call[q])
         /\ call[p].key # call[q].key) => ~WaitsOn(p, q)

\* no task is inside an operation of the manager
Quiescent == \A p \in Procs : pc[p] = Idle

\* C36: with a cache configured on the OrderBookManager, whenever no manager
\* operation is in progress every (venue, symbol) that has an entry in the
\* OrderBookCache also has a book in the registry: remove_book, clear_venue
\* and clear_all, under any interleaving with apply_updates/apply_snapshot,
\* leave no cached copy of a book that is no longer registered.
C36_CachedBooksAreRegistered ==
    (mgr.has_cache /\ Quiescent) => DOMAIN cache.entries \subseteq DOMAIN books

\* the steps a task takes inside an operation it has called
Run(p) ==
    \/ GocRead(p)
    \/ GocWrite(p)
    \/ GocCreate(p)
    \/ WLock(p)
    \/ WApply(p)
    \/ PutLock(p)
    \/ Put(p)
    \/ WUnlock(p)
    \/ GbRead(p)
    \/ RLock(p)
    \/ RRead(p)
    \/ CgGet(p)
    \/ RmWrite(p)
    \/ RmRemove(p)
    \/ RmInvalidate(p)
    \/ ClearVenue(p)
    \/ CaWrite(p)
    \/ CaClear(p)
    \/ HcRead(p)
    \/ HcBook(p)
    \/ HcDone(p)

\* C37: any finite set of concurrent OrderBookManager operations
\* (get_or_create_book, apply_updates, apply_snapshot, remove_book,
\* clear_venue, clear_all, get_snapshot, health_check), with or without a
\* cache, terminates under fair scheduling: no interleaving reaches a
\* deadlock among the registry lock, the per-book locks and the cache lock.
C37_OperationsTerminate ==
    \A p \in Procs : (pc[p] # Idle) ~> (pc[p] = Idle)

\* clear_all holds the registry's write lock and waits for the cache lock,
\* which the other task holds inside the put of an apply, under its book's
\* write lock
C37_Witness ==
    \E p \in Procs, q \in Procs :
        /\ pc[p] = "ca_clear"
        /\ pc[q] = "put"
        /\ cacheLock = q
        /\ booksLock.writer = p
        /\ bookLock[call[q].h].writer = q

(***************************************************************************)
(* CrossExchangeArbitrageDetector over core OrderBooks.                     *)
(*                                                                         *)
(* Decimals of this part are exact: a price is a whole number, a quantity   *)
(* is written in tenths (12 is 1.2), a fee rate in ten-thousandths (10 is   *)
(* 0.001, which is 10 bps).  A quotient n / d is kept as the pair           *)
(* [num |-> n, den |-> d] with d > 0 and compared by cross-multiplication.  *)
(* Decimal's division rounds at 28 digits; for the values below a quotient  *)
(* that differs from the threshold differs from it by at least 1/den, so    *)
(* the rounded and the exact comparison agree.                              *)
(***************************************************************************)
ArbVenues == {"Binance", "Bitfinex"}
ArbPrices == {50010, 50120}
ArbQtys == {0, 12, 15}
FeeRates == {0, 10}
\* (min_profit_bps, min_volume) a detector is constructed with; min_profit_bps
\* is an i32 and may be negative
DetectorConfigs == { <<10, 100>>, <<-100, 70000>> }

OrderBookLevel(price, quantity) == [price |-> price, quantity |-> quantity]
NewOrderBook == [bids |-> EmptyMap, asks |-> EmptyMap]

core_update_bid(b, price, quantity) ==
    [b EXCEPT !.bids = IF is_zero(quantity)
                       THEN MapRemove(@, ToF64(price))
                       ELSE MapInsert(@, ToF64(price), OrderBookLevel(price, quantity))]

core_update_ask(b, price, quantity) ==
    [b EXCEPT !.asks = IF is_zero(quantity)
                       THEN MapRemove(@, ToF64(price))
                       ELSE MapInsert(@, ToF64(price), OrderBookLevel(price, quantity))]

core_best_bid(b) == IF DOMAIN b.bids = {} THEN None ELSE Some(b.bids[MaxKey(b.bids)])
core_best_ask(b) == IF DOMAIN b.asks = {} THEN None ELSE Some(b.asks[MinKey(b.asks)])

NewDetector(min_profit_bps, min_volume) ==
    [min_profit_threshold |-> min_profit_bps,
     min_volume_threshold |-> min_volume,
     trading_fees |-> [v \in {"Binance", "Coinbase", "Kraken"} |->
                         CASE v = "Binance" -> 10
                           [] v = "Coinbase" -> 50
                           [] OTHER -> 26]]

set_trading_fee(det, venue, fee) ==
    [det EXCEPT !.trading_fees = MapInsert(@, venue, fee)]

\* lines 141-146: the venue's configured rate, 0.1% when it has none
fee_of(det, venue) ==
    IF venue \in DOMAIN det.trading_fees THEN det.trading_fees[venue] ELSE 10

\* a variant that charges the buy side only
total_fee_bps_BuyOnly(buy_fee, sell_fee) == buy_fee

\* line 149: (buy_fee + sell_fee) * 10000, in bps
total_fee_bps(buy_fee, sell_fee) == buy_fee + sell_fee

\* a variant that adds the fees to the gross profit
net_profit_bps_FeesAdded(buy_price, sell_price, fee_bps) ==
    [num |-> (sell_price - buy_price) * 10000 + fee_bps * buy_price, den |-> buy_price]

\* line 138 and 152: ((sell - buy) / buy) * 10000 - total_fee_bps
net_profit_bps(buy_price, sell_price, fee_bps) ==
    [num |-> (sell_price - buy_price) * 10000 - fee_bps * buy_price, den |-> buy_price]

\* r < n for a quotient r with a positive denominator
LessThan(r, n) == r.num < n * r.den

\* a variant that lets every pair of prices through
sell_not_above_buy_Never(sell_price, buy_price) == FALSE

\* line 132: sell_price <= buy_price
sell_not_above_buy(sell_price, buy_price) == sell_price <= buy_price

\* a variant that sizes the trade by the larger of the two levels
max_volume_Larger(best_ask_level, best_bid_level) ==
    IF best_ask_level.quantity >= best_bid_level.quantity
    THEN best_ask_level.quantity
    ELSE best_bid_level.quantity

\* line 161: best_ask.quantity.min(best_bid.quantity)
max_volume(best_ask_level, best_bid_level) ==
    IF best_ask_level.quantity <= best_bid_level.quantity
    THEN best_ask_level.quantity
    ELSE best_bid_level.quantity

check_arbitrage_direction(det, buy_venue, sell_venue, buy_book, sell_book) ==
    IF ~is_some(core_best_ask(buy_book)) THEN None
    ELSE IF ~is_some(core_best_bid(sell_book)) THEN None
    ELSE
      LET ask == unwrap(core_best_ask(buy_book))
          bid == unwrap(core_best_bid(sell_book))
          buy_price == ask.price
          sell_price == bid.price
          buy_fee == fee_of(det, buy_venue)
          sell_fee == fee_of(det, sell_venue)
          net == net_profit_bps(buy_price, sell_price, total_fee_bps(buy_fee, sell_fee))
          volume == max_volume(ask, bid)
      IN IF sell_not_above_buy(sell_price, buy_price) THEN None
         ELSE IF LessThan(net, det.min_profit_threshold) THEN None
         \* volume is in tenths: volume * buy_price < min_volume_threshold
         ELSE IF volume * buy_price < det.min_volume_threshold * 10 THEN None
         ELSE Some([buy_venue |-> buy_venue,
                    sell_venue |-> sell_venue,
                    buy_price |-> buy_price,
                    sell_price |-> sell_price,
                    \* net_profit_bps / 10000
                    profit_percentage |-> [num |-> net.num, den |-> net.den * 10000],
                    max_volume |-> volume,
                    \* in units of 1/100000 of the quote currency
                    estimated_profit |->
                        ((sell_price - buy_price) * 10000
                           - buy_price * buy_fee - sell_price * sell_fee) * volume])

\* Vec::push of an Option's content
Pushed(o) == IF is_some(o) THEN <<unwrap(o)>> ELSE <<>>

\* lines 81-111: the pairs i < j of the venue list, both directions of each
RECURSIVE PairLoop(_, _, _, _, _)
PairLoop(det, obooks, venues, i, j) ==
    IF i > Len(venues) THEN <<>>
    ELSE IF j > Len(venues) THEN PairLoop(det, obooks, venues, i + 1, i + 2)
    ELSE Pushed(check_arbitrage_direction(det, venues[i], venues[j],
                                          obooks[venues[i]], obooks[venues[j]]))
         \o Pushed(check_arbitrage_direction(det, venues[j], venues[i],
                                             obooks[venues[j]], obooks[venues[i]]))
         \o PairLoop(det, obooks, venues, i, j + 1)

\* a variant whose inner loop starts at i instead of i + 1
detect_opportunities_FromSelf(det, obooks, venues) == PairLoop(det, obooks, venues, 1, 1)

detect_opportunities(det, obooks, venues) == PairLoop(det, obooks, venues, 1, 2)

\* orderbooks.keys().collect(): a HashMap hands its keys out in any order
KeyOrders(S) ==
    {s \in [1..Cardinality(S) -> S] : \A i, j \in 1..Cardinality(S) : s[i] = s[j] => i = j}

ArbStart(min_profit_bps, min_volume) ==
    /\ detector = NewDetector(min_profit_bps, min_volume)
    /\ orderbooks = [v \in ArbVenues |-> NewOrderBook]
    /\ opps = <<>>
    /\ detected = FALSE

ArbFrame == UNCHANGED <<bookVars, mgrVars, queryVars, aggVars, eventVars,
                        lruVars, ttlVars, rlVars, hbVars>>

\* a call that changes an input makes the last result stale
CoreUpdateBid ==
    \E v \in ArbVenues, price \in ArbPrices, quantity \in ArbQtys :
        /\ orderbooks' = [orderbooks EXCEPT ![v] = core_update_bid(@, price, quantity)]
        /\ opps' = <<>>
        /\ detected' = FALSE
        /\ UNCHANGED detector
        /\ ArbFrame

CoreUpdateAsk ==
    \E v \in ArbVenues, price \in ArbPrices, quantity \in ArbQtys :
        /\ orderbooks' = [orderbooks EXCEPT ![v] = core_update_ask(@, price, quantity)]
        /\ opps' = <<>>
        /\ detected' = FALSE
        /\ UNCHANGED detector
        /\ ArbFrame

SetTradingFee ==
    \E v \in ArbVenues, fee \in FeeRates :
        /\ detector' = set_trading_fee(detector, v, fee)
        /\ opps' = <<>>
        /\ detected' = FALSE
        /\ UNCHANGED orderbooks
        /\ ArbFrame

DetectOpportunities ==
    \E venues \in KeyOrders(DOMAIN orderbooks) :
        /\ opps' = detect_opportunities(detector, orderbooks, venues)
        /\ detected' = TRUE
        /\ UNCHANGED <<detector, orderbooks>>
        /\ ArbFrame

ArbNext ==
    \/ CoreUpdateBid
    \/ CoreUpdateAsk
    \/ SetTradingFee
    \/ DetectOpportunities

(***************************************************************************)
(* Claims about the detector                                                *)
(***************************************************************************)
Opps == {opps[i] : i \in 1..Len(opps)}

\* both tops of the direction buy on a, sell on b exist
Quoted(a, b) == is_some(core_best_ask(orderbooks[a])) /\ is_some(core_best_bid(orderbooks[b]))
AskOf(a) == unwrap(core_best_ask(orderbooks[a]))
BidOf(b) == unwrap(core_best_bid(orderbooks[b]))

\* (buy_fee + sell_fee) x 10000 of the direction, from the configured rates
FeeBps(a, b) == fee_of(detector, a) + fee_of(detector, b)

\* net profit bps of the direction, times the buy price:
\* (((sell - buy) / buy) x 10000 - (buy_fee + sell_fee) x 10000) x buy
NetTimesBuy(a, b) ==
    (BidOf(b).price - AskOf(a).price) * 10000 - FeeBps(a, b) * AskOf(a).price

\* C8: venue A's best ask 50,010 (quantity 1.5), venue B's best bid 50,120
\* (quantity 1.2), both fee rates 0.1%, threshold 10 bps, minimum volume 100:
\* detect_opportunities returns exactly one opportunity, buy on A, sell on
\* B, quantity 1.2, net profit bps > 0.
C8_ScenarioOne ==
    \A a \in ArbVenues, b \in ArbVenues :
        (/\ detected
         /\ a # b
         /\ Quoted(a, b)
         /\ AskOf(a) = OrderBookLevel(50010, 15)
         /\ BidOf(b) = OrderBookLevel(50120, 12)
         /\ fee_of(detector, a) = 10
         /\ fee_of(detector, b) = 10
         /\ detector.min_profit_threshold = 10
         /\ detector.min_volume_threshold = 100)
        => /\ Len(opps) = 1
           /\ opps[1].buy_venue = a
           /\ opps[1].sell_venue = b
           /\ opps[1].max_volume = 12
           /\ opps[1].profit_percentage.num > 0

C10_VolumeWithinTopOfBook ==
    detected =>
        \A o \in Opps :
            /\ Quoted(o.buy_venue, o.sell_venue)
            /\ o.max_volume <= AskOf(o.buy_venue).quantity
            /\ o.max_volume <= BidOf(o.sell_venue).quantity

\* an opportunity whose two top levels differ in quantity, bought from a book
\* with a second ask level behind the best one
C10_Witness ==
    /\ detected
    /\ \E o \in Opps :
          /\ AskOf(o.buy_venue).quantity # BidOf(o.sell_venue).quantity
          /\ Cardinality(DOMAIN orderbooks[o.buy_venue].asks) = 2
          /\ Cardinality(DOMAIN orderbooks[o.sell_venue].bids) = 2

\* what detect_opportunities returns on the current books with detector det
OppsWith(det) ==
    LET found == detect_opportunities(det, orderbooks,
                                      CHOOSE venues \in KeyOrders(ArbVenues) : TRUE)
    IN {found[i] : i \in 1..Len(found)}

\* C11: with the books fixed, raising a venue's fee rate through
\* set_trading_fee never raises the net profit reported for a direction: each
\* opportunity returned after the raise was returned before it, with a net
\* profit at least as large.
C11_FeeRaiseNeverRaisesNet ==
    \A v \in ArbVenues, fee \in FeeRates :
        fee >= fee_of(detector, v) =>
            \A o2 \in OppsWith(set_trading_fee(detector, v, fee)) :
                \E o1 \in OppsWith(detector) :
                    /\ o1.buy_venue = o2.buy_venue
                    /\ o1.sell_venue = o2.sell_venue
                    /\ o1.profit_percentage.den = o2.profit_percentage.den
                    /\ o2.profit_percentage.num <= o1.profit_percentage.num

\* an opportunity was returned, and a fee raise leaves it with a strictly
\* smaller net profit
C11_Witness ==
    /\ detected
    /\ \E o1 \in Opps, v \in ArbVenues, fee \in FeeRates :
          /\ fee > fee_of(detector, v)
          /\ \E o2 \in OppsWith(set_trading_fee(detector, v, fee)) :
                /\ o1.buy_venue = o2.buy_venue
                /\ o1.sell_venue = o2.sell_venue
                /\ o2.profit_percentage.num < o1.profit_percentage.num

\* both venues have a best bid and a best ask, at the same two prices
IdenticalQuotes(a, b) ==
    /\ Quoted(a, a)
    /\ Quoted(b, b)
    /\ BidOf(a).price = BidOf(b).price
    /\ AskOf(a).price = AskOf(b).price

\* C12 as stated: when two venues quote an identical best bid and an
\* identical best ask, detect_opportunities over them returns an empty list,
\* whatever the fees and the threshold.
C12_IdenticalQuotesEmpty ==
    \A a \in ArbVenues, b \in ArbVenues :
        (detected /\ a # b /\ IdenticalQuotes(a, b)) => opps = <<>>

\* C12, amended: the same for quotes whose best bid is not above their best
\* ask; two venues whose books are crossed in the same way do yield
\* opportunities.
C12_IdenticalUncrossedQuotesEmpty ==
    \A a \in ArbVenues, b \in ArbVenues :
        (/\ detected
         /\ a # b
         /\ IdenticalQuotes(a, b)
         /\ BidOf(a).price <= AskOf(a).price) => opps = <<>>

\* identical quotes with the bid below the ask, under a threshold and a
\* minimum volume that would let the direction through
C12_Witness ==
    \E a \in ArbVenues, b \in ArbVenues :
        /\ detected
        /\ a # b
        /\ IdenticalQuotes(a, b)
        /\ BidOf(a).price < AskOf(a).price
        /\ detector.min_profit_threshold < 0
        /\ BidOf(b).quantity = 15
        /\ AskOf(a).quantity = 15

(***************************************************************************)
(* The read surface of FastOrderBook: get_volume_weighted_price and the     *)
(* checksum, asked of books built by the constructor and the replace_*      *)
(* operations                                                               *)
(***************************************************************************)
QueryFrame == UNCHANGED <<bookVars, mgrVars, arbVars, aggVars, eventVars,
                          lruVars, ttlVars, rlVars, hbVars>>

\* the loop of lines 240-248 over the levels left to walk: the pair of
\* total_cost and remaining_quantity after it
RECURSIVE WalkLevels(_, _, _)
WalkLevels(levels, total_cost, remaining_quantity) ==
    IF levels = <<>> \/ is_zero(remaining_quantity)
    THEN [total_cost |-> total_cost, remaining_quantity |-> remaining_quantity]
    ELSE LET level == Head(levels)
             available_quantity == IF level.quantity <= remaining_quantity
                                   THEN level.quantity
                                   ELSE remaining_quantity
         IN WalkLevels(Tail(levels),
                       total_cost + available_quantity * level.price,
                       remaining_quantity - available_quantity)

\* the quotient total_cost / quantity is kept exact, as num / den
get_volume_weighted_price(b, side, quantity) ==
    IF is_zero(quantity)
    THEN None
    ELSE LET levels == IF side = "Bid" THEN get_bids(b, None) ELSE get_asks(b, None)
             walked == WalkLevels(levels, 0, quantity)
         IN IF is_zero(walked.remaining_quantity)
            THEN Some([num |-> walked.total_cost, den |-> quantity])
            ELSE None

\* a ladder of n levels of quantity 1 at the prices from..(from + n - 1)
Ladder(from, n) == [i \in 1..n |-> L(from + i - 1, 1)]

\* the sides the books are built from: one with two levels, the same with
\* another order count, ladders longer than the ten levels the checksum reads
QueryBidLists ==
    { <<>>,
      <<L(1, 1), L(2, 2)>>,
      <<with_order_count(1, 1, 3), with_order_count(2, 2, 3)>>,
      Ladder(1, 12),
      Ladder(2, 11) }

QueryAskLists ==
    { <<>>,
      <<L(1, 2), L(2, 1)>>,
      Ladder(1, 12),
      Ladder(1, 11) }

QueryDepths == {1, 12}

QueryBooks ==
    {replace_asks(replace_bids(NewBook(d), bl), al) :
        d \in QueryDepths, bl \in QueryBidLists, al \in QueryAskLists}

\* quantities asked of get_volume_weighted_price: nothing validates them
VwapQtys == {-1, 0, 1, 2, 3, 13}

NoQuery == [name |-> "none", side |-> "Bid", quantity |-> 0, price |-> None,
            checksum |-> <<>>, expected |-> <<>>, valid |-> FALSE,
            core |-> None]

QueryStart(a, b) ==
    /\ bookA = a
    /\ bookB = b
    /\ query = NoQuery

GetVolumeWeightedPrice ==
    \E side \in Sides, quantity \in VwapQtys :
        /\ query' = [NoQuery EXCEPT !.name = "get_volume_weighted_price",
                                    !.side = side,
                                    !.quantity = quantity,
                                    !.price = get_volume_weighted_price(bookA, side, quantity)]
        /\ UNCHANGED <<bookA, bookB>>
        /\ QueryFrame

CalculateChecksum ==
    /\ query' = [NoQuery EXCEPT !.name = "calculate_checksum",
                                !.checksum = calculate_checksum(bookA),
                                !.expected = calculate_checksum(bookB)]
    /\ UNCHANGED <<bookA, bookB>>
    /\ QueryFrame

\* validate_checksum of the first book, given the checksum of either book
ValidateChecksum ==
    \E expected \in {calculate_checksum(bookA), calculate_checksum(bookB)} :
        /\ query' = [NoQuery EXCEPT !.name = "validate_checksum",
                                    !.checksum = calculate_checksum(bookA),
                                    !.expected = expected,
                                    !.valid = validate_checksum(bookA, expected)]
        /\ UNCHANGED <<bookA, bookB>>
        /\ QueryFrame

core_spread(b) ==
    IF is_some(core_best_bid(b)) /\ is_some(core_best_ask(b))
    THEN Some(unwrap(core_best_ask(b)).price - unwrap(core_best_bid(b)).price)
    ELSE None

\* the quotient by Decimal::from(2), kept exact as num / den
core_mid_price(b) ==
    IF is_some(core_best_bid(b)) /\ is_some(core_best_ask(b))
    THEN Some([num |-> unwrap(core_best_bid(b)).price + unwrap(core_best_ask(b)).price,
               den |-> 2])
    ELSE None

\* a level of the registry's book as the core book holds it; the times
\* of the levels and of the book are left out here as they are there
CoreLevel(level) == OrderBookLevel(level.price, level.quantity)

\* a variant that copies each side into the other
to_core_orderbook_Swapped(b) ==
    [bids |-> [k \in DOMAIN b.asks |-> CoreLevel(b.asks[k])],
     asks |-> [k \in DOMAIN b.bids |-> CoreLevel(b.bids[k])],
     sequence |-> Some(b.sequence)]

\* to_core_orderbook: every level goes under the f64 key it already has
to_core_orderbook(b) ==
    [bids |-> [k \in DOMAIN b.bids |-> CoreLevel(b.bids[k])],
     asks |-> [k \in DOMAIN b.asks |-> CoreLevel(b.asks[k])],
     sequence |-> Some(b.sequence)]

ToCoreOrderbook ==
    /\ query' = [NoQuery EXCEPT !.name = "to_core_orderbook",
                                !.core = Some(to_core_orderbook(bookA))]
    /\ UNCHANGED <<bookA, bookB>>
    /\ QueryFrame

QueryNext ==
    \/ GetVolumeWeightedPrice
    \/ CalculateChecksum
    \/ ValidateChecksum
    \/ ToCoreOrderbook

(***************************************************************************)
(* Claims about the queries                                                 *)
(***************************************************************************)
RECURSIVE SumSeq(_)
SumSeq(s) == IF s = <<>> THEN 0 ELSE Head(s) + SumSeq(Tail(s))

\* the levels of a side of the first book, from the best price outward
Resting(side) ==
    IF side = "Bid"
    THEN TakeBest(bookA.bids, "Bid", LevelCount(bookA.bids))
    ELSE TakeBest(bookA.asks, "Ask", LevelCount(bookA.asks))

TotalResting(side) ==
    SumSeq([i \in 1..Len(Resting(side)) |-> Resting(side)[i].quantity])

\* what filling q takes from level i: what is left of q after the levels
\* before it, and no more than the level holds
Consumed(side, q, i) ==
    LET before == SumSeq([j \in 1..(i - 1) |-> Resting(side)[j].quantity])
        left == IF q > before THEN q - before ELSE 0
    IN IF Resting(side)[i].quantity <= left THEN Resting(side)[i].quantity ELSE left

WalkedCost(side, q) ==
    SumSeq([i \in 1..Len(Resting(side)) |-> Resting(side)[i].price * Consumed(side, q, i)])

\* C19: get_volume_weighted_price(side, q) returns a price exactly when
\* q > 0 and the quantity resting on the side is at least q; the price is
\* then the sum of price x consumed quantity over the levels walked from the
\* best price outward, divided by q; otherwise it returns None.
C19_VwapExactlyWhenDepthSuffices ==
    query.name = "get_volume_weighted_price" =>
        /\ is_some(query.price) <=>
              (query.quantity > 0 /\ TotalResting(query.side) >= query.quantity)
        /\ is_some(query.price) =>
              unwrap(query.price) = [num |-> WalkedCost(query.side, query.quantity),
                                     den |-> query.quantity]

\* the keys of a side that are better than key k
BetterKeys(m, side, k) ==
    {j \in DOMAIN m : IF side = "Bid" THEN j > k ELSE j < k}

\* the (price, quantity) pairs of the levels of a side that have fewer than
\* ChecksumDepth better levels, each with its rank
TopPairs(m, side) ==
    { <<Cardinality(BetterKeys(m, side, k)), m[k].price, m[k].quantity>> :
          k \in {j \in DOMAIN m : Cardinality(BetterKeys(m, side, j)) < ChecksumDepth} }

SameTopPairs(a, b) ==
    /\ TopPairs(a.bids, "Bid") = TopPairs(b.bids, "Bid")
    /\ TopPairs(a.asks, "Ask") = TopPairs(b.asks, "Ask")

\* C20: two books whose top-10 bid (price, quantity) pairs agree and whose
\* top-10 ask (price, quantity) pairs agree have the same checksum, whatever
\* their deeper levels, order counts or sequence counters; and
\* validate_checksum(c) is true exactly when c equals calculate_checksum().
C20_ChecksumOfTopLevels ==
    /\ query.name = "calculate_checksum" =>
           (SameTopPairs(bookA, bookB) => query.checksum = query.expected)
    /\ query.name = "validate_checksum" =>
           (query.valid <=> query.expected = query.checksum)

\* two different books that agree on the ten best levels of both sides, one
\* of them holding more levels than that, have been given the same checksum
C20_Witness ==
    /\ query.name = "calculate_checksum"
    /\ SameTopPairs(bookA, bookB)
    /\ LevelCount(bookA.asks) > ChecksumDepth
    /\ LevelCount(bookA.asks) # LevelCount(bookB.asks)
    /\ query.checksum = query.expected

\* C39: the core OrderBook that to_core_orderbook makes of a FastOrderBook
\* has the same best bid and best ask, price and quantity, the same spread
\* and mid price, and the book's sequence counter as its sequence
C39_CoreViewSameTop ==
    query.name = "to_core_orderbook" =>
        LET core == unwrap(query.core) IN
        /\ {<<l.price, l.quantity>> : l \in core_best_bid(core)}
              = {<<l.price, l.quantity>> : l \in best_bid(bookA)}
        /\ {<<l.price, l.quantity>> : l \in core_best_ask(core)}
              = {<<l.price, l.quantity>> : l \in best_ask(bookA)}
        /\ core_spread(core) = spread(bookA)
        /\ core_mid_price(core) = mid_price(bookA)
        /\ core.sequence = Some(bookA.sequence)

\* a book with two levels on each side and a sequence above zero has been
\* converted, and the core view quotes both sides
C39_Witness ==
    /\ query.name = "to_core_orderbook"
    /\ LevelCount(bookA.bids) = 2
    /\ LevelCount(bookA.asks) = 2
    /\ bookA.sequence > 0
    /\ is_some(core_best_bid(unwrap(query.core)))
    /\ is_some(core_spread(unwrap(query.core)))

(***************************************************************************)
(* AggregatedOrderBook next to the books of the registry.  venues is the   *)
(* HashMap<VenueId, FastOrderBook>: the aggregate holds each book by       *)
(* value.  The iteration order of a HashMap is not specified: a query      *)
(* walks the member venues in any order.                                   *)
(***************************************************************************)
AggFrame == UNCHANGED <<bookVars, mgrVars, arbVars, queryVars, eventVars,
                        lruVars, ttlVars, rlVars, hbVars>>

AggVenues == {"Binance", "Coinbase"}
AggPrices == {1, 2}
AggQtys == {0, 1}
\* the sequence numbers at which a book of the registry still takes an update
AggSeqs == {0, 1}

NewAggregate == [venues |-> EmptyMap]

add_venue(a, venue_id, orderbook) ==
    [a EXCEPT !.venues = MapInsert(@, venue_id, orderbook)]

remove_venue(a, venue_id) == [a EXCEPT !.venues = MapRemove(@, venue_id)]

\* the orders in which the keys of a HashMap may be visited
IterOrders(keys) ==
    {o \in [1..Cardinality(keys) -> keys] : \A i, j \in DOMAIN o : o[i] = o[j] => i = j}

\* filter_map over the venues in iteration order: the venues that have the
\* side, each with its best level
RECURSIVE BestLevels(_, _, _)
BestLevels(a, order, side) ==
    IF order = <<>>
    THEN <<>>
    ELSE LET book_ == a.venues[Head(order)]
             level == IF side = "Bid" THEN best_bid(book_) ELSE best_ask(book_)
         IN (IF is_some(level) THEN <<<<Head(order), unwrap(level)>>>> ELSE <<>>)
            \o BestLevels(a, Tail(order), side)

\* Iterator::max_by keeps the later of two items that compare equal
RECURSIVE max_by(_, _)
max_by(x, rest) ==
    IF rest = <<>>
    THEN x
    ELSE max_by(IF x[2].price > Head(rest)[2].price THEN x ELSE Head(rest), Tail(rest))

\* Iterator::min_by keeps the earlier of two items that compare equal
RECURSIVE min_by(_, _)
min_by(x, rest) ==
    IF rest = <<>>
    THEN x
    ELSE min_by(IF x[2].price > Head(rest)[2].price THEN Head(rest) ELSE x, Tail(rest))

best_bid_across_venues(a, order) ==
    LET items == BestLevels(a, order, "Bid")
    IN IF items = <<>> THEN None ELSE Some(max_by(Head(items), Tail(items)))

best_ask_across_venues(a, order) ==
    LET items == BestLevels(a, order, "Ask")
    IN IF items = <<>> THEN None ELSE Some(min_by(Head(items), Tail(items)))

cross_venue_spread(a, order) ==
    LET bid == best_bid_across_venues(a, order)
        ask == best_ask_across_venues(a, order)
    IN IF is_some(bid) /\ is_some(ask)
       THEN Some(unwrap(ask)[2].price - unwrap(bid)[2].price)
       ELSE None

NoAggQuery == [name |-> "none", order |-> <<>>, best_bid |-> None,
               best_ask |-> None, spread |-> None]

AggStart ==
    /\ registry = [v \in AggVenues |-> NewBook(1)]
    /\ aggregate = NewAggregate
    /\ aggQuery = NoAggQuery

\* add_venue with the book the registry holds for the venue: the argument
\* is a FastOrderBook, so what is handed over is a clone of it
AddVenue ==
    \E venue_id \in AggVenues :
        /\ aggregate' = add_venue(aggregate, venue_id, registry[venue_id])
        /\ aggQuery' = NoAggQuery
        /\ UNCHANGED registry
        /\ AggFrame

RemoveVenue ==
    \E venue_id \in DOMAIN aggregate.venues :
        /\ aggregate' = remove_venue(aggregate, venue_id)
        /\ aggQuery' = NoAggQuery
        /\ UNCHANGED registry
        /\ AggFrame

\* an update applied to the book the registry holds for a venue
RegistryUpdateBid ==
    \E venue_id \in AggVenues, price \in AggPrices, quantity \in AggQtys :
        /\ registry[venue_id].sequence \in AggSeqs
        /\ registry' = [registry EXCEPT ![venue_id] = update_bid(@, price, quantity, None)]
        /\ aggQuery' = NoAggQuery
        /\ UNCHANGED aggregate
        /\ AggFrame

RegistryUpdateAsk ==
    \E venue_id \in AggVenues, price \in AggPrices, quantity \in AggQtys :
        /\ registry[venue_id].sequence \in AggSeqs
        /\ registry' = [registry EXCEPT ![venue_id] = update_ask(@, price, quantity, None)]
        /\ aggQuery' = NoAggQuery
        /\ UNCHANGED aggregate
        /\ AggFrame

\* best_bid_across_venues, best_ask_across_venues and cross_venue_spread
\* asked of the aggregate as it stands
AggregateQuery ==
    \E order \in IterOrders(DOMAIN aggregate.venues) :
        /\ aggQuery' = [name |-> "query", order |-> order,
                        best_bid |-> best_bid_across_venues(aggregate, order),
                        best_ask |-> best_ask_across_venues(aggregate, order),
                        spread |-> cross_venue_spread(aggregate, order)]
        /\ UNCHANGED <<registry, aggregate>>
        /\ AggFrame

AggNext ==
    \/ AddVenue
    \/ RemoveVenue
    \/ RegistryUpdateBid
    \/ RegistryUpdateAsk
    \/ AggregateQuery

(***************************************************************************)
(* Claims about the aggregate                                               *)
(***************************************************************************)
\* the aggregate as it would be if each member venue's entry were the book
\* the registry holds now
Registered == [venues |-> [v \in DOMAIN aggregate.venues |-> registry[v]]]

\* C21: the aggregate holds a shared handle to each venue's registry-owned
\* book: every update applied to the registry's book after add_venue is
\* reflected in best_bid_across_venues, best_ask_across_venues and
\* cross_venue_spread without re-adding the venue.
C21_AggregateSeesRegistryUpdates ==
    aggQuery.name = "query" =>
        /\ aggQuery.best_bid = best_bid_across_venues(Registered, aggQuery.order)
        /\ aggQuery.best_ask = best_ask_across_venues(Registered, aggQuery.order)
        /\ aggQuery.spread = cross_venue_spread(Registered, aggQuery.order)

\* the venues of the aggregate that have the side
HavingSide(side) ==
    {v \in DOMAIN aggregate.venues :
        is_some(IF side = "Bid" THEN best_bid(aggregate.venues[v])
                                ELSE best_ask(aggregate.venues[v]))}

BestPriceOf(v, side) ==
    IF side = "Bid" THEN unwrap(best_bid(aggregate.venues[v])).price
                    ELSE unwrap(best_ask(aggregate.venues[v])).price

\* position of a venue in the iteration order of the last query
PositionOf(v) == CHOOSE i \in DOMAIN aggQuery.order : aggQuery.order[i] = v

\* the result names a venue that has the side, with its best level, no
\* other venue is better, and no venue with the same price comes earlier
ExtremalFirst(result, side) ==
    IF HavingSide(side) = {}
    THEN result = None
    ELSE /\ is_some(result)
         /\ LET venue == unwrap(result)[1]
                level == unwrap(result)[2]
            IN /\ venue \in HavingSide(side)
               /\ level.price = BestPriceOf(venue, side)
               /\ \A v \in HavingSide(side) :
                      /\ IF side = "Bid" THEN BestPriceOf(v, side) <= level.price
                                         ELSE BestPriceOf(v, side) >= level.price
                      /\ BestPriceOf(v, side) = level.price =>
                             PositionOf(venue) <= PositionOf(v)

\* C22: best_bid_across_venues returns the maximum best bid and
\* best_ask_across_venues the minimum best ask over the member venues that
\* have the side (None when none has it), and among venues quoting the same
\* extremal price the first one in iteration order is returned, for bids as
\* well as for asks.
C22_ExtremalPriceFirstVenue ==
    aggQuery.name = "query" =>
        /\ ExtremalFirst(aggQuery.best_bid, "Bid")
        /\ ExtremalFirst(aggQuery.best_ask, "Ask")

\* the arbitrage condition over the aggregate: two distinct member venues,
\* the best bid of one strictly above the best ask of the other
ArbitrageCondition ==
    \E A \in HavingSide("Ask"), B \in HavingSide("Bid") :
        A # B /\ BestPriceOf(B, "Bid") > BestPriceOf(A, "Ask")

\* C31: cross_venue_spread() equals the minimum best ask over venues minus
\* the maximum best bid over venues (None unless some venue has a bid and
\* some venue has an ask), and it is negative exactly when the arbitrage
\* condition holds, that is when there are two distinct member venues A and
\* B with B's best bid strictly above A's best ask.
C31_NegativeSpreadIsArbitrage ==
    aggQuery.name = "query" =>
        /\ is_some(aggQuery.spread) <=> (HavingSide("Bid") # {} /\ HavingSide("Ask") # {})
        /\ is_some(aggQuery.spread) =>
              /\ \E A \in HavingSide("Ask"), B \in HavingSide("Bid") :
                    /\ \A v \in HavingSide("Ask") : BestPriceOf(A, "Ask") <= BestPriceOf(v, "Ask")
                    /\ \A v \in HavingSide("Bid") : BestPriceOf(B, "Bid") >= BestPriceOf(v, "Bid")
                    /\ unwrap(aggQuery.spread) = BestPriceOf(A, "Ask") - BestPriceOf(B, "Bid")
              /\ unwrap(aggQuery.spread) < 0 <=> ArbitrageCondition

(***************************************************************************)
(* OrderBookEventProcessor observing the books of two venues.  A level of  *)
(* these books carries its last_updated: the reading of the wall clock at   *)
(* the update that wrote it, which may or may not differ from an earlier    *)
(* reading.  Prices and quantities of these books are positive.  A handler  *)
(* fails by panicking: handle_event returns nothing.                        *)
(***************************************************************************)
EventFrame == UNCHANGED <<bookVars, mgrVars, arbVars, queryVars, aggVars,
                          lruVars, ttlVars, rlVars, hbVars>>

EventVenues == {"Binance", "Coinbase"}
EventPrices == {1, 2}
EventQtys == {0, 1}
Times == {0, 1}
\* the numbers of updates made so far, over both books, at which one more
\* update is made
EventSeqs == {0, 1}
\* the kinds of event a registered handler may fail on
FailsOn == {{}, {"BestBidAskUpdate"}}
\* the numbers of handlers registered so far at which one more is registered
HandlerCounts == {0, 1}

\* Decimal::to_i32 of n / d, d > 0: the quotient truncated toward zero
TruncDiv(n, d) == IF n >= 0 THEN n \div d ELSE -((-n) \div d)

RECURSIVE GCD(_, _)
GCD(a, b) == IF b = 0 THEN a ELSE GCD(b, a % b)

total_bid_volume(b, depth) ==
    LET levels == get_bids(b, depth)
    IN SumSeq([i \in 1..Len(levels) |-> levels[i].quantity])

total_ask_volume(b, depth) ==
    LET levels == get_asks(b, depth)
    IN SumSeq([i \in 1..Len(levels) |-> levels[i].quantity])

\* bid_volume / total_volume as the fraction in lowest terms
imbalance_ratio(b, depth) ==
    LET bid_volume == total_bid_volume(b, depth)
        total_volume == bid_volume + total_ask_volume(b, depth)
    IN IF is_zero(total_volume)
       THEN None
       ELSE Some([num |-> bid_volume \div GCD(bid_volume, total_volume),
                  den |-> total_volume \div GCD(bid_volume, total_volume)])

spread_bps(b) ==
    IF is_some(best_bid_price(b)) /\ is_some(best_ask_price(b))
       /\ unwrap(best_bid_price(b)) > 0
    THEN Some(TruncDiv((unwrap(best_ask_price(b)) - unwrap(best_bid_price(b))) * 10000,
                       unwrap(best_bid_price(b))))
    ELSE None

OrderBookState(b) ==
    [best_bid |-> best_bid(b),
     best_ask |-> best_ask(b),
     spread |-> spread(b),
     total_bid_volume |-> total_bid_volume(b, Some(10)),
     total_ask_volume |-> total_ask_volume(b, Some(10)),
     imbalance_ratio |-> imbalance_ratio(b, Some(10))]

calculate_change_bps(old_price, new_price) ==
    IF is_zero(old_price) THEN 0 ELSE TruncDiv((new_price - old_price) * 10000, old_price)

PriceMovement(venue_id, side, old_price, new_price, improved) ==
    [type |-> "PriceMovement", venue_id |-> venue_id, side |-> side,
     old_price |-> old_price, new_price |-> new_price,
     change_bps |-> calculate_change_bps(old_price, new_price),
     movement_type |-> IF improved THEN "Improvement" ELSE "Degradation"]

check_price_movements(venue_id, prev_state, current_state) ==
    (IF is_some(prev_state.best_bid) /\ is_some(current_state.best_bid)
        /\ unwrap(prev_state.best_bid).price # unwrap(current_state.best_bid).price
     THEN <<PriceMovement(venue_id, "Bid", unwrap(prev_state.best_bid).price,
                          unwrap(current_state.best_bid).price,
                          unwrap(current_state.best_bid).price
                              > unwrap(prev_state.best_bid).price)>>
     ELSE <<>>)
    \o
    (IF is_some(prev_state.best_ask) /\ is_some(current_state.best_ask)
        /\ unwrap(prev_state.best_ask).price # unwrap(current_state.best_ask).price
     THEN <<PriceMovement(venue_id, "Ask", unwrap(prev_state.best_ask).price,
                          unwrap(current_state.best_ask).price,
                          unwrap(current_state.best_ask).price
                              < unwrap(prev_state.best_ask).price)>>
     ELSE <<>>)

\* the gaps of one side: windows(2) over its 20 best levels, a gap where
\* the distance is more than 1% of the lower price
RECURSIVE SideGaps(_, _, _, _)
SideGaps(venue_id, side, levels, i) ==
    IF Len(levels) < 2
    THEN <<>>
    ELSE LET lower == IF levels[1].price < levels[2].price THEN levels[1] ELSE levels[2]
             higher == IF levels[1].price < levels[2].price THEN levels[2] ELSE levels[1]
             gap_size == higher.price - lower.price
         IN (IF gap_size * 100 > lower.price
             THEN <<[type |-> "LiquidityGap", venue_id |-> venue_id, side |-> side,
                     gap_start |-> lower.price, gap_end |-> higher.price,
                     gap_size |-> higher.price - lower.price, depth_level |-> i + 1]>>
             ELSE <<>>)
            \o SideGaps(venue_id, side, Tail(levels), i + 1)

detect_liquidity_gaps(venue_id, b) ==
    SideGaps(venue_id, "Bid", get_bids(b, Some(20)), 0)
    \o SideGaps(venue_id, "Ask", get_asks(b, Some(20)), 0)

\* a variant that also reports a change of exactly 10%
volume_changed_AtThreshold(prev_total, current_total) ==
    LET change == IF current_total >= prev_total THEN current_total - prev_total
                                                 ELSE prev_total - current_total
    IN prev_total > 0 /\ change * 10 >= prev_total

\* lines 212-214: prev_total > 0 and
\* ((current_total - prev_total) / prev_total).abs() > 0.1
volume_changed(prev_total, current_total) ==
    LET change == IF current_total >= prev_total THEN current_total - prev_total
                                                 ELSE prev_total - current_total
    IN prev_total > 0 /\ change * 10 > prev_total

\* the events of lines 180-236, which need a previous state
ChangeEvents(venue_id, b, prev_state, current_state) ==
    LET prev_total == prev_state.total_bid_volume + prev_state.total_ask_volume
        current_total == current_state.total_bid_volume + current_state.total_ask_volume
    IN (IF prev_state.best_bid # current_state.best_bid
           \/ prev_state.best_ask # current_state.best_ask
        THEN <<[type |-> "BestBidAskUpdate", venue_id |-> venue_id,
                best_bid |-> current_state.best_bid,
                best_ask |-> current_state.best_ask,
                previous_best_bid |-> prev_state.best_bid,
                previous_best_ask |-> prev_state.best_ask]>>
        ELSE <<>>)
       \o
       (IF prev_state.spread # current_state.spread
        THEN <<[type |-> "SpreadUpdate", venue_id |-> venue_id,
                spread |-> current_state.spread, spread_bps |-> spread_bps(b),
                previous_spread |-> prev_state.spread, mid_price |-> mid_price(b)]>>
        ELSE <<>>)
       \o
       (IF volume_changed(prev_total, current_total)
        THEN <<[type |-> "VolumeUpdate", venue_id |-> venue_id,
                total_bid_volume |-> current_state.total_bid_volume,
                total_ask_volume |-> current_state.total_ask_volume,
                imbalance_ratio |-> current_state.imbalance_ratio, depth |-> 10]>>
        ELSE <<>>)
       \o check_price_movements(venue_id, prev_state, current_state)

\* a variant whose classes start at the thresholds themselves
crossing_severity_AtThreshold(cross_amount) ==
    IF cross_amount >= 100 THEN "Severe"
    ELSE IF cross_amount >= 10 THEN "Moderate" ELSE "Minor"

\* lines 242-248
crossing_severity(cross_amount) ==
    IF cross_amount > 100 THEN "Severe"
    ELSE IF cross_amount > 10 THEN "Moderate" ELSE "Minor"

CrossingEvents(venue_id, b, current_state) ==
    IF is_crossed(b) /\ is_some(current_state.best_bid) /\ is_some(current_state.best_ask)
    THEN LET best_bid_ == unwrap(current_state.best_bid)
             best_ask_ == unwrap(current_state.best_ask)
             cross_amount == best_bid_.price - best_ask_.price
         IN <<[type |-> "CrossingDetected", venue_id |-> venue_id,
               best_bid |-> best_bid_, best_ask |-> best_ask_,
               cross_amount |-> cross_amount,
               severity |-> crossing_severity(cross_amount)]>>
    ELSE <<>>

generate_events(previous_state, venue_id, b, current_state) ==
    (IF is_some(previous_state)
     THEN ChangeEvents(venue_id, b, unwrap(previous_state), current_state)
     ELSE <<>>)
    \o CrossingEvents(venue_id, b, current_state)
    \o detect_liquidity_gaps(venue_id, b)

\* handle_event called on the handlers from position i on, until one of
\* them panics: the calls made and whether the last of them panicked
RECURSIVE HandleFrom(_, _, _)
HandleFrom(handlers, event, i) ==
    IF i > Len(handlers)
    THEN [log |-> <<>>, panicked |-> FALSE]
    ELSE IF event.type \in handlers[i].fails_on
         THEN [log |-> <<<<handlers[i].id, event>>>>, panicked |-> TRUE]
         ELSE LET rest == HandleFrom(handlers, event, i + 1)
              IN [log |-> <<<<handlers[i].id, event>>>> \o rest.log,
                  panicked |-> rest.panicked]

\* a variant that calls the handlers from the last registered to the first
emit_event_LastFirst(handlers, event) ==
    HandleFrom([i \in 1..Len(handlers) |-> handlers[Len(handlers) + 1 - i]], event, 1)

emit_event(handlers, event) == HandleFrom(handlers, event, 1)

\* for event in events { self.emit_event(event) }
RECURSIVE EmitAll(_, _)
EmitAll(handlers, events) ==
    IF events = <<>>
    THEN [log |-> <<>>, panicked |-> FALSE]
    ELSE LET first == emit_event(handlers, Head(events))
         IN IF first.panicked
            THEN first
            ELSE LET rest == EmitAll(handlers, Tail(events))
                 IN [log |-> first.log \o rest.log, panicked |-> rest.panicked]

NewProcessor == [handlers |-> <<>>, previous_state |-> None]

add_handler(p, handler) == [p EXCEPT !.handlers = Append(@, handler)]

\* the processor after the call, the events generated, the handle_event
\* calls made in order, and whether the call ended in a handler's panic:
\* the panic unwinds out of the call before line 167
process_book_update(p, venue_id, b) ==
    LET current_state == OrderBookState(b)
        events == generate_events(p.previous_state, venue_id, b, current_state)
        emitted == EmitAll(p.handlers, events)
    IN [processor |-> IF emitted.panicked
                      THEN p
                      ELSE [p EXCEPT !.previous_state = Some(current_state)],
        events |-> events,
        log |-> emitted.log,
        panicked |-> emitted.panicked]

\* the level an update has just written, with the clock reading of the update
Stamp(b, side, price, quantity, t) ==
    LET stamped(m) ==
            IF is_zero(quantity) \/ ToF64(price) \notin DOMAIN m
            THEN m
            ELSE [m EXCEPT ![ToF64(price)] =
                      [price |-> @.price, quantity |-> @.quantity,
                       order_count |-> @.order_count, last_updated |-> t]]
    IN IF side = "Bid" THEN [b EXCEPT !.bids = stamped(@)]
                       ELSE [b EXCEPT !.asks = stamped(@)]

NoEventCall == [name |-> "none", venue_id |-> "", events |-> <<>>, log |-> <<>>,
                panicked |-> FALSE, current_state |-> None, own_previous |-> None]

EventStart ==
    /\ processor = NewProcessor
    /\ observed = [v \in EventVenues |-> NewBook(2)]
    /\ lastSeen = [v \in EventVenues |-> None]
    /\ eventCall = NoEventCall

UpdatesMade == SumSeq([i \in 1..2 |-> observed[IF i = 1 THEN "Binance" ELSE "Coinbase"].sequence])

AddHandler ==
    \E fails_on \in FailsOn :
        /\ Len(processor.handlers) \in HandlerCounts
        /\ processor' = add_handler(processor, [id |-> Len(processor.handlers) + 1,
                                                fails_on |-> fails_on])
        /\ eventCall' = NoEventCall
        /\ UNCHANGED <<observed, lastSeen>>
        /\ EventFrame

\* update_bid or update_ask on a book, made when the wall clock reads t
StampedUpdate(b, side, price, quantity, t) ==
    Stamp(IF side = "Bid" THEN update_bid(b, price, quantity, None)
                          ELSE update_ask(b, price, quantity, None),
          side, price, quantity, t)

\* an update_bid or update_ask on the book of a venue
EventBookUpdate ==
    \E venue_id \in EventVenues, side \in Sides, price \in EventPrices,
       quantity \in EventQtys, t \in Times :
        /\ UpdatesMade \in EventSeqs
        /\ observed' = [observed EXCEPT ![venue_id] =
               StampedUpdate(@, side, price, quantity, t)]
        /\ eventCall' = NoEventCall
        /\ UNCHANGED <<processor, lastSeen>>
        /\ EventFrame

ProcessBookUpdate ==
    \E venue_id \in DOMAIN observed :
        LET done == process_book_update(processor, venue_id, observed[venue_id])
        IN /\ processor' = done.processor
           /\ eventCall' = [name |-> "process_book_update", venue_id |-> venue_id,
                            events |-> done.events, log |-> done.log,
                            panicked |-> done.panicked,
                            current_state |-> Some(OrderBookState(observed[venue_id])),
                            own_previous |-> lastSeen[venue_id]]
           /\ lastSeen' = [lastSeen EXCEPT ![venue_id] = Some(OrderBookState(observed[venue_id]))]
           /\ UNCHANGED observed
           /\ EventFrame

EventNext ==
    \/ AddHandler
    \/ EventBookUpdate
    \/ ProcessBookUpdate

(***************************************************************************)
(* Claims about the event processor                                         *)
(***************************************************************************)
\* every generated event paired with every handler, event after event, the
\* handlers in registration order within one event
AllDeliveries ==
    LET n == Len(processor.handlers)
    IN [k \in 1..(Len(eventCall.events) * n) |->
            <<((k - 1) % n) + 1, eventCall.events[((k - 1) \div n) + 1]>>]

\* C23: every event generated by one process_book_update call is delivered
\* before the call returns to every registered handler, the handlers in
\* registration order for each event and the events in the order they were
\* generated.
C23_DeliveredInOrder ==
    eventCall.name = "process_book_update" =>
        /\ Len(eventCall.log) <= Len(AllDeliveries)
        /\ \A k \in DOMAIN eventCall.log : eventCall.log[k] = AllDeliveries[k]
        /\ ~eventCall.panicked => eventCall.log = AllDeliveries

\* a call that returned after delivering two events or more to two handlers
C23_Witness ==
    /\ eventCall.name = "process_book_update"
    /\ ~eventCall.panicked
    /\ Len(processor.handlers) = 2
    /\ Len(eventCall.events) >= 2
    /\ Len(eventCall.log) = 2 * Len(eventCall.events)

\* C24: a failure of one handler while it handles an event does not halt
\* delivery: the other handlers still receive that event, the remaining
\* events are still delivered to them, and the retained previous state is
\* still updated.
C24_HandlerFailureIsolated ==
    eventCall.name = "process_book_update" =>
        /\ \A i \in DOMAIN eventCall.events, h \in DOMAIN processor.handlers :
               eventCall.events[i].type \notin processor.handlers[h].fails_on =>
                   \E k \in DOMAIN eventCall.log :
                       eventCall.log[k] = <<h, eventCall.events[i]>>
        /\ processor.previous_state = eventCall.current_state

\* C25: the processor keeps one previous state per book: the events emitted
\* for an observation of a book depend only on that book's current state
\* and on that book's own previous observation, whatever other book was
\* observed in between.
C25_PreviousStatePerBook ==
    (/\ eventCall.name = "process_book_update"
     /\ \A h \in DOMAIN processor.handlers : processor.handlers[h].fails_on = {})
    => eventCall.events =
           generate_events(eventCall.own_previous, eventCall.venue_id,
                           observed[eventCall.venue_id],
                           unwrap(eventCall.current_state))

(***************************************************************************)
(* One OrderBookCache driven through its public operations.  lruClock       *)
(* counts the accesses made and accessed gives, for each key, the count at  *)
(* its last put or successful get: the order of the last_accessed           *)
(* timestamps the cache itself keeps.                                       *)
(***************************************************************************)
LruFrame == UNCHANGED <<bookVars, mgrVars, arbVars, queryVars, aggVars,
                        eventVars, ttlVars, rlVars, hbVars>>

CacheKeys == {BookKey(v, "BTC/USDT") : v \in {"Binance", "Coinbase", "Kraken"}}
CacheSizes == {0, 1, 2}
CacheBooks == {NewBook(1)}
\* the numbers of accesses made so far at which one more is made
LruSteps == 0..4

NoLruOp == [name |-> "new", key |-> BookKey("", ""), result |-> None, evicted |-> {}]

LruStart(max_size) ==
    /\ lru = [max_size |-> max_size, cache |-> NewCache]
    /\ lruClock = 0
    /\ accessed = [k \in CacheKeys |-> 0]
    /\ lruOp = NoLruOp

CachePut ==
    \E key \in CacheKeys, b \in CacheBooks :
        /\ lruClock \in LruSteps
        /\ lru' = [lru EXCEPT !.cache = put(@, lru.max_size, key,
                                            [book |-> b, partial |-> FALSE])]
        /\ lruClock' = lruClock + 1
        /\ accessed' = [accessed EXCEPT ![key] = lruClock + 1]
        /\ lruOp' = [name |-> "put", key |-> key, result |-> None,
                     evicted |-> DOMAIN lru.cache.entries \ DOMAIN lru'.cache.entries]
        /\ LruFrame

\* get: a hit when the entry is there and younger than ttl, which depends
\* on the time gone by; an entry found too old is removed
CacheGet ==
    \E key \in CacheKeys, live \in BOOLEAN :
        /\ lruClock \in LruSteps
        /\ lruClock' = lruClock + 1
        /\ IF key \in DOMAIN lru.cache.entries /\ live
           THEN /\ lru' = [lru EXCEPT !.cache = get_hit(@, key)]
                /\ accessed' = [accessed EXCEPT ![key] = lruClock + 1]
                /\ lruOp' = [name |-> "get", key |-> key,
                             result |-> Some(lru.cache.entries[key].book), evicted |-> {}]
           ELSE /\ lru' = [lru EXCEPT !.cache = invalidate(@, key)]
                /\ UNCHANGED accessed
                /\ lruOp' = [name |-> "get", key |-> key, result |-> None, evicted |-> {}]
        /\ LruFrame

CacheInvalidate ==
    \E key \in CacheKeys :
        /\ lruClock \in LruSteps
        /\ lruClock' = lruClock + 1
        /\ lru' = [lru EXCEPT !.cache = invalidate(@, key)]
        /\ lruOp' = [name |-> "invalidate", key |-> key, result |-> None, evicted |-> {}]
        /\ UNCHANGED accessed
        /\ LruFrame

CacheClear ==
    /\ lruClock \in LruSteps
    /\ lruClock' = lruClock + 1
    /\ lru' = [lru EXCEPT !.cache = clear(@)]
    /\ lruOp' = [name |-> "clear", key |-> BookKey("", ""), result |-> None, evicted |-> {}]
    /\ UNCHANGED accessed
    /\ LruFrame

LruNext ==
    \/ CachePut
    \/ CacheGet
    \/ CacheInvalidate
    \/ CacheClear

(***************************************************************************)
(* Claims about the cache                                                   *)
(***************************************************************************)
CachedKeys == DOMAIN lru.cache.entries

\* C26: the cache is bounded by its capacity: after any sequence of put,
\* get, invalidate and clear, for every configured max_size, the number of
\* cached entries is at most max_size.
C26_CacheWithinCapacity == Cardinality(CachedKeys) <= lru.max_size

\* a step that is a put, of a key cached or not, into a full cache or not
PutStep == lruClock' = lruClock + 1 /\ lruOp'.name = "put"
PutOfNewKey == PutStep /\ lruOp'.key \notin CachedKeys
IsFull == Cardinality(CachedKeys) >= lru.max_size

\* the put removes exactly one entry, one whose last access is the oldest
RemovesOldest ==
    \E k \in CachedKeys :
        /\ \A j \in CachedKeys : accessed[k] <= accessed[j]
        /\ CachedKeys \ DOMAIN lru'.cache.entries = {k}

RemovesNothing == CachedKeys \subseteq DOMAIN lru'.cache.entries

\* C27: a put of a new key into a full cache removes exactly one entry, the
\* one whose last access (its put or its last successful get) is the
\* oldest, and a put of a key that is already cached evicts nothing.
C27_PutEvictsOldest ==
    [][/\ (PutOfNewKey /\ IsFull) => RemovesOldest
       /\ (PutStep /\ lruOp'.key \in CachedKeys) => RemovesNothing]_vars

\* C27, for a full cache that holds at least one entry: the put of a new
\* key removes exactly one entry, the one whose last access is the oldest;
\* a put of a cached key, or into a cache that is not full, removes nothing.
C27_PutEvictsOldestOfNonEmpty ==
    [][/\ (PutOfNewKey /\ IsFull /\ CachedKeys # {}) => RemovesOldest
       /\ (PutStep /\ (lruOp'.key \in CachedKeys \/ ~IsFull)) => RemovesNothing]_vars

\* a put has evicted from a cache of two entries the one that was put last
\* of the two, the other having been read since
C27_Witness ==
    /\ lruOp.name = "put"
    /\ lru.max_size = 2
    /\ \E k \in lruOp.evicted, j \in CachedKeys \ {lruOp.key} :
           /\ accessed[k] < accessed[j]
           /\ accessed[j] < accessed[lruOp.key]
           /\ accessed[k] > 1

(***************************************************************************)
(* The detector on input maps of zero to three venues.  The books are the   *)
(* results of at most one update_ask and one update_bid on a new OrderBook, *)
(* the detector is constructed with a threshold of 0 or 10 bps.             *)
(***************************************************************************)
DetectVenues == {"Binance", "Bitfinex", "Kraken"}
DetectPrices == {50000, 50100}
DetectConfigs == { <<0, 100>>, <<10, 100>> }

\* a new book after update_ask(price, 1.2) and update_bid(price, 1.5), each
\* of them made or left out
DetectBooks ==
    LET Asked == {NewOrderBook} \cup {core_update_ask(NewOrderBook, p, 12) : p \in DetectPrices}
    IN Asked \cup {core_update_bid(b, p, 15) : b \in Asked, p \in DetectPrices}

DetectStart(min_profit_bps, min_volume, obooks) ==
    /\ detector = NewDetector(min_profit_bps, min_volume)
    /\ orderbooks = obooks
    /\ opps = <<>>
    /\ detected = FALSE

DetectNext ==
    \/ SetTradingFee
    \/ DetectOpportunities

\* the indices of the result that hold an opportunity of the direction
\* buy on a, sell on b
Returned(a, b) ==
    {i \in 1..Len(opps) : opps[i].buy_venue = a /\ opps[i].sell_venue = b}

\* C29: detect_opportunities evaluates each ordered pair (buy venue, sell
\* venue) of distinct input venues exactly once and returns at most one
\* opportunity per ordered pair; every returned opportunity has buy_venue
\* different from sell_venue, buy_price equal to the buy venue's best ask,
\* sell_price equal to the sell venue's best bid and sell_price strictly
\* greater than buy_price, and a direction in which the needed side is empty
\* yields nothing.
C29_EachDirectionOnce ==
    detected =>
        /\ \A i \in 1..Len(opps) :
              /\ opps[i].buy_venue \in DOMAIN orderbooks
              /\ opps[i].sell_venue \in DOMAIN orderbooks
              /\ opps[i].buy_venue # opps[i].sell_venue
              /\ Quoted(opps[i].buy_venue, opps[i].sell_venue)
              /\ opps[i].buy_price = AskOf(opps[i].buy_venue).price
              /\ opps[i].sell_price = BidOf(opps[i].sell_venue).price
              /\ opps[i].sell_price > opps[i].buy_price
        /\ \A a \in DOMAIN orderbooks, b \in DOMAIN orderbooks :
              /\ Cardinality(Returned(a, b)) <= 1
              /\ (a # b /\ ~Quoted(a, b)) => Returned(a, b) = {}
              \* the direction was evaluated: what passes the tests of
              \* check_arbitrage_direction is in the result
              /\ (/\ a # b
                  /\ Quoted(a, b)
                  /\ BidOf(b).price > AskOf(a).price
                  /\ NetTimesBuy(a, b) >= detector.min_profit_threshold * AskOf(a).price
                  /\ AskOf(a).quantity * AskOf(a).price >= detector.min_volume_threshold * 10
                  /\ BidOf(b).quantity * AskOf(a).price >= detector.min_volume_threshold * 10)
                 => Cardinality(Returned(a, b)) = 1

\* three venues: two directions were returned, a third has no best bid to
\* sell into, and one of the books is crossed in itself
C29_Witness ==
    /\ detected
    /\ DOMAIN orderbooks = DetectVenues
    /\ Len(opps) >= 2
    /\ \E a \in DetectVenues, b \in DetectVenues :
          a # b /\ is_some(core_best_ask(orderbooks[a])) /\ ~is_some(core_best_bid(orderbooks[b]))
    /\ \E a \in DetectVenues : Quoted(a, a) /\ BidOf(a).price > AskOf(a).price

\* C30: every opportunity returned by detect_opportunities under a
\* non-negative minimum-profit threshold has a positive estimated absolute
\* profit, (sell - buy - buy x buy_fee - sell x sell_fee) x quantity > 0.
C30_EstimatedProfitPositive ==
    (detected /\ detector.min_profit_threshold >= 0) =>
        \A i \in 1..Len(opps) :
            /\ opps[i].estimated_profit
                  = ((opps[i].sell_price - opps[i].buy_price) * 10000
                       - opps[i].buy_price * fee_of(detector, opps[i].buy_venue)
                       - opps[i].sell_price * fee_of(detector, opps[i].sell_venue))
                    * opps[i].max_volume
            /\ opps[i].estimated_profit > 0

(***************************************************************************)
(* The event processor watching one book.  The book has taken one           *)
(* update_bid and one update_ask since it was constructed (an update with   *)
(* quantity zero leaves the side empty) and takes one more update, before   *)
(* or after it is observed.  No handler is registered.                      *)
(***************************************************************************)
WatchVenues == {"Binance"}
WatchPrices == {1, 11, 12, 101, 102}
\* quantities of the first two updates, and of the one that follows
WatchStartQtys == {0, 10}
WatchQtys == {0, 9, 10, 11, 12}
\* the sequence numbers at which the book takes an update
WatchSeqs == {2}

WatchBooks ==
    {StampedUpdate(StampedUpdate(NewBook(2), "Bid", pb, qb, 0), "Ask", pa, qa, 0) :
        pb \in WatchPrices, qb \in WatchStartQtys,
        pa \in WatchPrices, qa \in WatchStartQtys}

WatchStart(b) ==
    /\ processor = NewProcessor
    /\ observed = [v \in WatchVenues |-> b]
    /\ lastSeen = [v \in WatchVenues |-> None]
    /\ eventCall = NoEventCall

WatchBookUpdate ==
    \E venue_id \in DOMAIN observed, side \in Sides, price \in WatchPrices,
       quantity \in WatchQtys, t \in Times :
        /\ observed[venue_id].sequence \in WatchSeqs
        /\ observed' = [observed EXCEPT ![venue_id] =
               StampedUpdate(@, side, price, quantity, t)]
        /\ eventCall' = NoEventCall
        /\ UNCHANGED <<processor, lastSeen>>
        /\ EventFrame

WatchNext ==
    \/ WatchBookUpdate
    \/ ProcessBookUpdate

\* the events of the last call that are of one kind
EventsOfType(type) ==
    {i \in DOMAIN eventCall.events : eventCall.events[i].type = type}

\* total quantity of the levels a state was taken from, bids plus asks
TotalOf(state) == state.total_bid_volume + state.total_ask_volume

\* |a - b|
Distance(a, b) == IF a >= b THEN a - b ELSE b - a

\* C32: process_book_update emits a volume-changed event exactly when a
\* previous observation exists, its total top-10 volume (bids plus asks) was
\* greater than zero, and the current top-10 total differs from it by
\* strictly more than 10% of the previous total; a change of exactly 10% or
\* less emits no volume-changed event.
C32_VolumeEventAboveTenPercent ==
    eventCall.name = "process_book_update" =>
        LET b == observed[eventCall.venue_id]
            current_total == SumSeq([i \in 1..Len(get_bids(b, Some(10))) |->
                                        get_bids(b, Some(10))[i].quantity])
                             + SumSeq([i \in 1..Len(get_asks(b, Some(10))) |->
                                        get_asks(b, Some(10))[i].quantity])
            moved == /\ is_some(eventCall.own_previous)
                     /\ TotalOf(unwrap(eventCall.own_previous)) > 0
                     /\ Distance(current_total, TotalOf(unwrap(eventCall.own_previous))) * 10
                           > TotalOf(unwrap(eventCall.own_previous))
        IN /\ Cardinality(EventsOfType("VolumeUpdate")) = IF moved THEN 1 ELSE 0
           /\ \A i \in EventsOfType("VolumeUpdate") :
                  eventCall.events[i].total_bid_volume + eventCall.events[i].total_ask_volume
                      = current_total

\* an observation whose total is exactly 10% away from the total of the
\* observation before it
C32_Witness ==
    /\ eventCall.name = "process_book_update"
    /\ is_some(eventCall.own_previous)
    /\ TotalOf(unwrap(eventCall.own_previous)) = 20
    /\ TotalOf(unwrap(eventCall.current_state)) = 22
    /\ EventsOfType("VolumeUpdate") = {}

\* C33: a crossed book is reported and never corrected: process_book_update
\* emits exactly one crossing-detected event on every observation (the first
\* one included) for which book.is_crossed() is true and none otherwise,
\* with severity Severe when best bid minus best ask exceeds 100, Moderate
\* when it exceeds 10 and Minor otherwise, and the observation leaves the
\* book's levels unchanged.
C33_CrossingReportedNotCorrected ==
    eventCall.name = "process_book_update" =>
        LET b == observed[eventCall.venue_id]
            crossed == /\ DOMAIN b.bids # {}
                       /\ DOMAIN b.asks # {}
                       /\ b.bids[MaxKey(b.bids)].price >= b.asks[MinKey(b.asks)].price
        IN /\ Cardinality(EventsOfType("CrossingDetected")) = IF crossed THEN 1 ELSE 0
           /\ \A i \in EventsOfType("CrossingDetected") :
                  LET e == eventCall.events[i]
                      amount == b.bids[MaxKey(b.bids)].price - b.asks[MinKey(b.asks)].price
                  IN /\ e.best_bid = b.bids[MaxKey(b.bids)]
                     /\ e.best_ask = b.asks[MinKey(b.asks)]
                     /\ e.cross_amount = amount
                     /\ amount > 100 => e.severity = "Severe"
                     /\ (amount > 10 /\ amount <= 100) => e.severity = "Moderate"
                     /\ amount <= 10 => e.severity = "Minor"
           \* the book is the one the observation read
           /\ eventCall.current_state = Some(OrderBookState(b))

\* a first observation of a book crossed by exactly 10
C33_Witness ==
    /\ eventCall.name = "process_book_update"
    /\ eventCall.own_previous = None
    /\ \E i \in EventsOfType("CrossingDetected") :
          /\ eventCall.events[i].cross_amount = 10
          /\ eventCall.events[i].severity = "Minor"

\* price and quantity of an optional level
Quote(level) == {<<l.price, l.quantity>> : l \in level}

\* C38: a best-bid/ask-changed event is emitted only when the best bid or
\* the best ask really changed: if between two observations of a book the
\* best bid and the best ask keep the same price and quantity (for example
\* the best level is re-sent by update_bid with identical values), the
\* second observation emits no best-bid/ask-changed event.
C38_BestChangedOnlyOnChange ==
    (/\ eventCall.name = "process_book_update"
     /\ is_some(eventCall.own_previous)
     /\ Quote(unwrap(eventCall.own_previous).best_bid)
            = Quote(unwrap(eventCall.current_state).best_bid)
     /\ Quote(unwrap(eventCall.own_previous).best_ask)
            = Quote(unwrap(eventCall.current_state).best_ask))
    => EventsOfType("BestBidAskUpdate") = {}

(***************************************************************************)
(* OrderBookCache with its time-to-live.  An entry carries the reading of   *)
(* the wall clock at its last access; wall is the reading now, in seconds.  *)
(* touched keeps, for each key, the reading at its last put or successful   *)
(* get, whether or not the entry is still cached.                           *)
(***************************************************************************)
TtlFrame == UNCHANGED <<bookVars, mgrVars, arbVars, queryVars, aggVars,
                        eventVars, lruVars, rlVars, hbVars>>

TimedKeys == {BookKey(v, "BTC/USDT") : v \in {"Binance", "Coinbase"}}
TimedSizes == {1, 2}
TtlSeconds == {0, 2}
WallTimes == 0..3
\* the access counts of an entry at which one more get is made for its key
AccessCounts == {1, 2}

\* a variant that lets an entry live until ttl has gone by, ttl included
is_live_Inclusive(now, last_accessed, ttl) == now - last_accessed <= ttl

\* cache.rs line 52: Utc::now().signed_duration_since(entry.last_accessed) < self.ttl
is_live(now, last_accessed, ttl) == now - last_accessed < ttl

CacheEntry(b, now, access_count) ==
    [book |-> b, last_accessed |-> now, access_count |-> access_count]

NewTimedCache(max_size, ttl_seconds) ==
    [cache |-> EmptyMap, max_size |-> max_size, ttl |-> ttl_seconds]

\* the keys min_by_key may return: those of the smallest last_accessed
Oldest(entries) ==
    {k \in DOMAIN entries :
        \A j \in DOMAIN entries : entries[k].last_accessed <= entries[j].last_accessed}

\* put, with the entry evict_lru removes when it is called
timed_put(c, key, b, now, victim) ==
    LET evicting == Cardinality(DOMAIN c.cache) >= c.max_size /\ key \notin DOMAIN c.cache
        kept == IF evicting THEN MapRemove(c.cache, victim) ELSE c.cache
    IN [c EXCEPT !.cache = MapInsert(kept, key, CacheEntry(b, now, 1))]

\* get: the cache after the call and what the call returns; now is the
\* reading compared with the entry, later the reading stored in it
timed_get(c, key, now, later) ==
    IF key \in DOMAIN c.cache /\ is_live(now, c.cache[key].last_accessed, c.ttl)
    THEN [cache |-> [c EXCEPT !.cache[key] =
                        CacheEntry(@.book, later, @.access_count + 1)],
          result |-> Some(c.cache[key].book)]
    ELSE [cache |-> [c EXCEPT !.cache = MapRemove(@, key)], result |-> None]

NoTimedOp == [name |-> "new", key |-> BookKey("", ""), result |-> None]

TimedStart(max_size, ttl_seconds) ==
    /\ timed = NewTimedCache(max_size, ttl_seconds)
    /\ wall = 0
    /\ touched = [k \in TimedKeys |-> 0]
    /\ timedOp = NoTimedOp

TimedPut ==
    \E key \in TimedKeys, b \in CacheBooks :
      \E victim \in IF DOMAIN timed.cache = {} THEN {key} ELSE Oldest(timed.cache) :
        /\ timed' = timed_put(timed, key, b, wall, victim)
        /\ touched' = [touched EXCEPT ![key] = wall]
        /\ timedOp' = [name |-> "put", key |-> key, result |-> None]
        /\ UNCHANGED wall
        /\ TtlFrame

\* the clock is read twice, at line 52 and at line 53, and may have gone on
\* in between
TimedGet ==
    \E key \in TimedKeys, later \in {wall, wall + 1} \cap WallTimes :
        LET done == timed_get(timed, key, wall, later)
        IN /\ key \in DOMAIN timed.cache => timed.cache[key].access_count \in AccessCounts
           /\ timed' = done.cache
           /\ wall' = later
           /\ touched' = IF is_some(done.result)
                         THEN [touched EXCEPT ![key] = later]
                         ELSE touched
           /\ timedOp' = [name |-> "get", key |-> key, result |-> done.result]
           /\ TtlFrame

\* a second goes by
Tick ==
    /\ wall + 1 \in WallTimes
    /\ wall' = wall + 1
    /\ timedOp' = [name |-> "tick", key |-> BookKey("", ""), result |-> None]
    /\ UNCHANGED <<timed, touched>>
    /\ TtlFrame

TtlNext ==
    \/ TimedPut
    \/ TimedGet
    \/ Tick

TimedKeysCached == DOMAIN timed.cache

\* C34: OrderBookCache::get returns the cached book exactly when an entry
\* exists for the key and its last access (its put or its last successful
\* get) is less than ttl ago, refreshing that last access; an entry whose
\* last access is ttl or more ago is removed by the get, which returns None
\* (a miss, not an error), and later gets return None until the next put for
\* that key.
C34_GetWithinTtl ==
    [][/\ timedOp'.name = "get" =>
            LET key == timedOp'.key
                fresh == key \in TimedKeysCached /\ wall - touched[key] < timed.ttl
            IN /\ fresh => /\ timedOp'.result = Some(timed.cache[key].book)
                           /\ key \in DOMAIN timed'.cache
                           /\ timed'.cache[key].last_accessed = wall'
                           /\ timed'.cache[key].book = timed.cache[key].book
               /\ ~fresh => /\ timedOp'.result = None
                            /\ key \notin DOMAIN timed'.cache
               /\ \A k \in TimedKeys \ {key} :
                      /\ k \in DOMAIN timed'.cache <=> k \in TimedKeysCached
                      /\ k \in TimedKeysCached => timed'.cache[k] = timed.cache[k]
       \* a key comes into the cache by a put of that key only
       /\ \A k \in TimedKeys :
              (k \notin TimedKeysCached /\ k \in DOMAIN timed'.cache)
                  => (timedOp'.name = "put" /\ timedOp'.key = k)]_vars

\* a get has just removed an entry that was last read, with success, exactly
\* ttl seconds before
C34_Witness ==
    /\ timedOp.name = "get"
    /\ timedOp.result = None
    /\ timed.ttl = 2
    /\ touched[timedOp.key] = 1
    /\ wall = 3
    /\ timedOp.key \notin DOMAIN timed.cache

(***************************************************************************)
(* RateLimiter.  semaphore is the number of permits the tokio Semaphore     *)
(* has available; instant is the reading of the monotonic clock, in units   *)
(* of window_duration's resolution.  A SemaphorePermit gives its permit    *)
(* back when it is dropped.                                                 *)
(***************************************************************************)
RlFrame == UNCHANGED <<bookVars, mgrVars, arbVars, queryVars, aggVars,
                       eventVars, lruVars, ttlVars, hbVars>>

PermitCounts == {1, 2}
WindowDurations == {1, 2}
Instants == 0..3
\* the numbers of permits granted in a window at which one more call is made
GrantCounts == 0..3

NewRateLimiter(permits_per_window, window_duration, now) ==
    [semaphore |-> permits_per_window,
     permits_per_window |-> permits_per_window,
     window_duration |-> window_duration,
     last_reset |-> now]

\* lines 57-64: the permits in use are added back once the window is over
maybe_reset_window(l, now) ==
    IF now - l.last_reset >= l.window_duration
    THEN [l EXCEPT !.semaphore = @ + (l.permits_per_window - @), !.last_reset = now]
    ELSE l

\* the SemaphorePermit bound to _permit goes out of scope when the call
\* returns: Drop adds the permit back
drop_permit(l) == [l EXCEPT !.semaphore = @ + 1]

\* Semaphore::try_acquire on a semaphore with a permit available
take_permit(l) == [l EXCEPT !.semaphore = @ - 1]

available_permits(l) == l.semaphore

NoLimiterOp == [name |-> "new", granted |-> FALSE, reset |-> FALSE]

LimiterStart(permits_per_window, window_duration) ==
    /\ limiter = NewRateLimiter(permits_per_window, window_duration, 0)
    /\ instant = 0
    /\ grants = 0
    /\ limiterOp = NoLimiterOp

\* acquire: waits while the semaphore has no permit
Acquire ==
    LET l == maybe_reset_window(limiter, instant)
        reset == l.last_reset # limiter.last_reset
    IN /\ grants \in GrantCounts
       /\ available_permits(l) > 0
       /\ limiter' = drop_permit(take_permit(l))
       /\ grants' = IF reset THEN 1 ELSE grants + 1
       /\ limiterOp' = [name |-> "acquire", granted |-> TRUE, reset |-> reset]
       /\ UNCHANGED instant
       /\ RlFrame

TryAcquire ==
    LET l == maybe_reset_window(limiter, instant)
        reset == l.last_reset # limiter.last_reset
        ok == available_permits(l) > 0
    IN /\ grants \in GrantCounts
       /\ limiter' = IF ok THEN drop_permit(take_permit(l)) ELSE l
       /\ grants' = IF ok THEN (IF reset THEN 1 ELSE grants + 1)
                          ELSE (IF reset THEN 0 ELSE grants)
       /\ limiterOp' = [name |-> "try_acquire", granted |-> ok, reset |-> reset]
       /\ UNCHANGED instant
       /\ RlFrame

\* time goes by
Elapse ==
    /\ instant + 1 \in Instants
    /\ instant' = instant + 1
    /\ limiterOp' = [name |-> "elapse", granted |-> FALSE, reset |-> FALSE]
    /\ UNCHANGED <<limiter, grants>>
    /\ RlFrame

RlNext ==
    \/ Acquire
    \/ TryAcquire
    \/ Elapse

\* C35: RateLimiter grants at most permits_per_window permits per window:
\* within one window each successful acquire or try_acquire lowers
\* available_permits() by one, once permits_per_window permits have been
\* granted try_acquire returns false, and after window_duration has elapsed
\* the permits are restored so that try_acquire succeeds again.
C35_AtMostPermitsPerWindow ==
    /\ grants <= limiter.permits_per_window
    /\ (limiterOp.name \in {"acquire", "try_acquire"} /\ limiterOp.granted)
           => available_permits(limiter) = limiter.permits_per_window - grants
    /\ (limiterOp.name = "try_acquire" /\ ~limiterOp.reset
           /\ grants >= limiter.permits_per_window) => ~limiterOp.granted
    /\ (limiterOp.name = "try_acquire" /\ limiterOp.reset) => limiterOp.granted

(***************************************************************************)
(* HeartbeatManager and ConnectionHealthMonitor.  A manager owns its        *)
(* status and its latency samples; the ping task spawned by start and the   *)
(* health task spawned by start_monitoring run beside the callers of        *)
(* record_pong and stop_monitoring.  The sleeps and intervals leave the     *)
(* order of the steps open, so the tasks take their steps in any order;     *)
(* tokioNow is the reading of the monotonic clock.                          *)
(***************************************************************************)
HbFrame == UNCHANGED <<bookVars, mgrVars, arbVars, queryVars, aggVars,
                       eventVars, lruVars, ttlVars, rlVars>>

\* (max_missed_pongs, reconnect_threshold) a monitor is constructed with
MonitorConfigs == { <<1, 1>>, <<2, 2>>, <<2, 1>>, <<1, 2>> }
\* the counts of pings sent and of pongs recorded at which one more is made
PingCounts == {0, 1, 2}
PongCounts == {0, 1}

HeartbeatStatus_default ==
    [last_ping |-> None, last_pong |-> None, ping_count |-> 0, pong_count |-> 0,
     missed_pongs |-> 0, average_latency |-> None, is_healthy |-> TRUE]

NewHeartbeatManager(max_missed_pongs) ==
    [status |-> HeartbeatStatus_default,
     max_missed_pongs |-> max_missed_pongs,
     latency_samples |-> <<>>]

NewConnectionHealthMonitor(max_missed_pongs, reconnect_threshold) ==
    [heartbeat_manager |-> NewHeartbeatManager(max_missed_pongs),
     reconnect_threshold |-> reconnect_threshold,
     is_monitoring |-> FALSE]

\* lines 252-256: the manager the health task is given is made anew from the
\* three settings of the monitor's own
task_manager(m) == NewHeartbeatManager(m.heartbeat_manager.max_missed_pongs)

hb_record_pong(h, now) ==
    [h EXCEPT !.status.last_pong = Some(now), !.status.pong_count = @ + 1]

hb_get_status(h) == h.status

hb_reset(h) == [h EXCEPT !.status = HeartbeatStatus_default, !.latency_samples = <<>>]

\* lines 127-143: one more pong missed
missed(h) ==
    LET n == h.status.missed_pongs + 1 IN
    [h EXCEPT !.status.missed_pongs = n,
              !.status.is_healthy = IF n >= h.max_missed_pongs THEN FALSE ELSE @]

\* lines 101-105: the pong of this ping is there
answered(h) == [h EXCEPT !.status.missed_pongs = 0, !.status.is_healthy = TRUE]

RECURSIVE SumDurations(_)
SumDurations(samples) ==
    IF samples = <<>> THEN 0 ELSE Head(samples) + SumDurations(Tail(samples))

\* lines 109-124: the sample is pushed and the average stored
store_latency(h, latency) ==
    LET samples == Append(h.latency_samples, latency) IN
    [h EXCEPT !.latency_samples = samples,
              !.status.average_latency = Some(SumDurations(samples) \div Len(samples))]

\* line 270
needs_reconnect(status, reconnect_threshold) ==
    ~status.is_healthy /\ status.missed_pongs >= reconnect_threshold

NoPinger == [pc |-> "none", latency |-> 0]
NoHealthTask == [pc |-> "none", last |-> "none"]

HbStart(max_missed_pongs, reconnect_threshold) ==
    /\ monitor = NewConnectionHealthMonitor(max_missed_pongs, reconnect_threshold)
    /\ spawned = None
    /\ pinger = NoPinger
    /\ healthTask = NoHealthTask
    /\ invoked = FALSE
    /\ tokioNow = 0

\* start_monitoring, called once: it sets the flag, spawns the ping task on
\* the monitor's manager and the health task on a manager of its own
StartMonitoring ==
    /\ pinger.pc = "none"
    /\ monitor' = [monitor EXCEPT !.is_monitoring = TRUE]
    /\ pinger' = [NoPinger EXCEPT !.pc = "tick"]
    /\ spawned' = Some(task_manager(monitor))
    /\ healthTask' = [NoHealthTask EXCEPT !.pc = "while"]
    /\ UNCHANGED <<invoked, tokioNow>>
    /\ HbFrame

StopMonitoring ==
    /\ monitor.is_monitoring
    /\ monitor' = [monitor EXCEPT !.is_monitoring = FALSE]
    /\ UNCHANGED <<spawned, pinger, healthTask, invoked, tokioNow>>
    /\ HbFrame

\* ConnectionHealthMonitor::record_pong
RecordPong ==
    /\ monitor.heartbeat_manager.status.pong_count \in PongCounts
    /\ monitor' = [monitor EXCEPT !.heartbeat_manager = hb_record_pong(@, tokioNow)]
    /\ UNCHANGED <<spawned, pinger, healthTask, invoked, tokioNow>>
    /\ HbFrame

\* lines 76-94 of the ping task: a tick, and the ping sent or not
SendPing ==
    /\ pinger.pc = "tick"
    /\ monitor.heartbeat_manager.status.ping_count \in PingCounts
    /\ \E sent \in BOOLEAN :
          IF sent
          THEN /\ monitor' = [monitor EXCEPT
                     !.heartbeat_manager.status.last_ping = Some(tokioNow),
                     !.heartbeat_manager.status.ping_count = @ + 1]
               /\ pinger' = [pinger EXCEPT !.pc = "sleep"]
          ELSE UNCHANGED <<monitor, pinger>>
    /\ UNCHANGED <<spawned, healthTask, invoked, tokioNow>>
    /\ HbFrame

\* lines 96-143 of the ping task, after the sleep
CheckPong ==
    /\ pinger.pc = "sleep"
    /\ LET h == monitor.heartbeat_manager
           status == h.status
       IN IF is_some(status.last_ping) /\ is_some(status.last_pong)
             /\ unwrap(status.last_pong) >= unwrap(status.last_ping)
          THEN /\ monitor' = [monitor EXCEPT !.heartbeat_manager = answered(h)]
               /\ pinger' = [pc |-> "latency",
                             latency |-> unwrap(status.last_pong) - unwrap(status.last_ping)]
               /\ UNCHANGED invoked
          ELSE /\ monitor' = [monitor EXCEPT !.heartbeat_manager = missed(h)]
               /\ pinger' = [NoPinger EXCEPT !.pc = "tick"]
               /\ invoked' = FALSE
    /\ UNCHANGED <<spawned, healthTask, tokioNow>>
    /\ HbFrame

\* lines 108-124 of the ping task, after the status guard was dropped
StoreLatency ==
    /\ pinger.pc = "latency"
    /\ monitor' = [monitor EXCEPT
                      !.heartbeat_manager = store_latency(@, pinger.latency)]
    /\ pinger' = [NoPinger EXCEPT !.pc = "tick"]
    /\ UNCHANGED <<spawned, healthTask, invoked, tokioNow>>
    /\ HbFrame

\* one pass of the health task's loop, lines 265-294, its handler succeeding
\* or failing; the task ends when the flag is down
HealthCheck ==
    /\ healthTask.pc = "while"
    /\ IF ~monitor.is_monitoring
       THEN /\ healthTask' = [healthTask EXCEPT !.pc = "done"]
            /\ UNCHANGED <<spawned, invoked>>
       ELSE LET heartbeat_manager == unwrap(spawned)
                status == hb_get_status(heartbeat_manager)
            IN IF needs_reconnect(status, monitor.reconnect_threshold)
               THEN \E ok \in BOOLEAN :
                       /\ spawned' = IF ok THEN Some(hb_reset(heartbeat_manager))
                                     ELSE spawned
                       /\ healthTask' = [healthTask EXCEPT
                              !.last = IF ok THEN "reconnected" ELSE "failed"]
                       /\ invoked' = TRUE
               ELSE /\ healthTask' = [healthTask EXCEPT !.last = "healthy"]
                    /\ UNCHANGED <<spawned, invoked>>
    /\ UNCHANGED <<monitor, pinger, tokioNow>>
    /\ HbFrame

\* the monotonic clock goes on
HbElapse ==
    /\ tokioNow + 1 \in Instants
    /\ tokioNow' = tokioNow + 1
    /\ UNCHANGED <<monitor, spawned, pinger, healthTask, invoked>>
    /\ HbFrame

PingTask == SendPing \/ CheckPong \/ StoreLatency

HbNext ==
    \/ StartMonitoring
    \/ StopMonitoring
    \/ RecordPong
    \/ SendPing
    \/ CheckPong
    \/ StoreLatency
    \/ HealthCheck
    \/ HbElapse

\* ConnectionHealthMonitor::get_status and is_healthy
get_status(m) == hb_get_status(m.heartbeat_manager)
is_healthy(m) == get_status(m).is_healthy

\* the monitor is monitoring and its heartbeat has gone unhealthy with
\* the pongs missed reaching the threshold of reconnection
Unhealthy ==
    /\ monitor.is_monitoring
    /\ needs_reconnect(get_status(monitor), monitor.reconnect_threshold)

HandlerNeverInvoked == ~invoked /\ (spawned # None => unwrap(spawned).status = HeartbeatStatus_default)

(***************************************************************************)
(* Specifications                                                          *)
(***************************************************************************)
BookInit ==
    /\ book \in {NewBook(d) : d \in Depths}
    /\ lastOp = NoOp
    /\ lastSnap = NoSnapshot
    /\ snapTimes = 0
    /\ lastLevels = <<>>
    /\ MgrStart([max_depth |-> 2, has_cache |-> FALSE, max_size |-> 0])
    /\ ArbStart(0, 0)
    /\ QueryStart(NewBook(1), NewBook(1))
    /\ AggStart
    /\ EventStart
    /\ LruStart(0)
    /\ TimedStart(1, 0)
    /\ LimiterStart(1, 1)
    /\ HbStart(1, 1)

BookSpec == BookInit /\ [][BookNext]_vars

MgrInit ==
    /\ \E config \in MgrConfigs : MgrStart(config)
    /\ book = NewBook(1)
    /\ lastOp = NoOp
    /\ lastSnap = NoSnapshot
    /\ snapTimes = 0
    /\ lastLevels = <<>>
    /\ ArbStart(0, 0)
    /\ QueryStart(NewBook(1), NewBook(1))
    /\ AggStart
    /\ EventStart
    /\ LruStart(0)
    /\ TimedStart(1, 0)
    /\ LimiterStart(1, 1)
    /\ HbStart(1, 1)

MgrSpec == MgrInit /\ [][MgrNext]_vars

ArbInit ==
    /\ \E config \in DetectorConfigs : ArbStart(config[1], config[2])
    /\ book = NewBook(1)
    /\ lastOp = NoOp
    /\ lastSnap = NoSnapshot
    /\ snapTimes = 0
    /\ lastLevels = <<>>
    /\ MgrStart([max_depth |-> 2, has_cache |-> FALSE, max_size |-> 0])
    /\ QueryStart(NewBook(1), NewBook(1))
    /\ AggStart
    /\ EventStart
    /\ LruStart(0)
    /\ TimedStart(1, 0)
    /\ LimiterStart(1, 1)
    /\ HbStart(1, 1)

ArbSpec == ArbInit /\ [][ArbNext]_vars

QueryInit ==
    /\ \E a \in QueryBooks, b \in QueryBooks : QueryStart(a, b)
    /\ book = NewBook(1)
    /\ lastOp = NoOp
    /\ lastSnap = NoSnapshot
    /\ snapTimes = 0
    /\ lastLevels = <<>>
    /\ MgrStart([max_depth |-> 2, has_cache |-> FALSE, max_size |-> 0])
    /\ ArbStart(0, 0)
    /\ AggStart
    /\ EventStart
    /\ LruStart(0)
    /\ TimedStart(1, 0)
    /\ LimiterStart(1, 1)
    /\ HbStart(1, 1)

QuerySpec == QueryInit /\ [][QueryNext]_vars

AggInit ==
    /\ AggStart
    /\ book = NewBook(1)
    /\ lastOp = NoOp
    /\ lastSnap = NoSnapshot
    /\ snapTimes = 0
    /\ lastLevels = <<>>
    /\ MgrStart([max_depth |-> 2, has_cache |-> FALSE, max_size |-> 0])
    /\ ArbStart(0, 0)
    /\ QueryStart(NewBook(1), NewBook(1))
    /\ EventStart
    /\ LruStart(0)
    /\ TimedStart(1, 0)
    /\ LimiterStart(1, 1)
    /\ HbStart(1, 1)

AggSpec == AggInit /\ [][AggNext]_vars

EventInit ==
    /\ EventStart
    /\ book = NewBook(1)
    /\ lastOp = NoOp
    /\ lastSnap = NoSnapshot
    /\ snapTimes = 0
    /\ lastLevels = <<>>
    /\ MgrStart([max_depth |-> 2, has_cache |-> FALSE, max_size |-> 0])
    /\ ArbStart(0, 0)
    /\ QueryStart(NewBook(1), NewBook(1))
    /\ AggStart
    /\ LruStart(0)
    /\ TimedStart(1, 0)
    /\ LimiterStart(1, 1)
    /\ HbStart(1, 1)

EventSpec == EventInit /\ [][EventNext]_vars

LruInit ==
    /\ \E max_size \in CacheSizes : LruStart(max_size)
    /\ book = NewBook(1)
    /\ lastOp = NoOp
    /\ lastSnap = NoSnapshot
    /\ snapTimes = 0
    /\ lastLevels = <<>>
    /\ MgrStart([max_depth |-> 2, has_cache |-> FALSE, max_size |-> 0])
    /\ ArbStart(0, 0)
    /\ QueryStart(NewBook(1), NewBook(1))
    /\ AggStart
    /\ EventStart
    /\ TimedStart(1, 0)
    /\ LimiterStart(1, 1)
    /\ HbStart(1, 1)

LruSpec == LruInit /\ [][LruNext]_vars

DetectInit ==
    /\ \E config \in DetectConfigs, venues \in SUBSET DetectVenues :
          \E obooks \in [venues -> DetectBooks] :
              DetectStart(config[1], config[2], obooks)
    /\ book = NewBook(1)
    /\ lastOp = NoOp
    /\ lastSnap = NoSnapshot
    /\ snapTimes = 0
    /\ lastLevels = <<>>
    /\ MgrStart([max_depth |-> 2, has_cache |-> FALSE, max_size |-> 0])
    /\ QueryStart(NewBook(1), NewBook(1))
    /\ AggStart
    /\ EventStart
    /\ LruStart(0)
    /\ TimedStart(1, 0)
    /\ LimiterStart(1, 1)
    /\ HbStart(1, 1)

DetectSpec == DetectInit /\ [][DetectNext]_vars

WatchInit ==
    /\ \E b \in WatchBooks : WatchStart(b)
    /\ book = NewBook(1)
    /\ lastOp = NoOp
    /\ lastSnap = NoSnapshot
    /\ snapTimes = 0
    /\ lastLevels = <<>>
    /\ MgrStart([max_depth |-> 2, has_cache |-> FALSE, max_size |-> 0])
    /\ ArbStart(0, 0)
    /\ QueryStart(NewBook(1), NewBook(1))
    /\ AggStart
    /\ LruStart(0)
    /\ TimedStart(1, 0)
    /\ LimiterStart(1, 1)
    /\ HbStart(1, 1)

WatchSpec == WatchInit /\ [][WatchNext]_vars

TtlInit ==
    /\ \E max_size \in TimedSizes, ttl_seconds \in TtlSeconds :
          TimedStart(max_size, ttl_seconds)
    /\ book = NewBook(1)
    /\ lastOp = NoOp
    /\ lastSnap = NoSnapshot
    /\ snapTimes = 0
    /\ lastLevels = <<>>
    /\ MgrStart([max_depth |-> 2, has_cache |-> FALSE, max_size |-> 0])
    /\ ArbStart(0, 0)
    /\ QueryStart(NewBook(1), NewBook(1))
    /\ AggStart
    /\ EventStart
    /\ LruStart(0)
    /\ LimiterStart(1, 1)
    /\ HbStart(1, 1)

TtlSpec == TtlInit /\ [][TtlNext]_vars

RlInit ==
    /\ \E permits_per_window \in PermitCounts, window_duration \in WindowDurations :
          LimiterStart(permits_per_window, window_duration)
    /\ book = NewBook(1)
    /\ lastOp = NoOp
    /\ lastSnap = NoSnapshot
    /\ snapTimes = 0
    /\ lastLevels = <<>>
    /\ MgrStart([max_depth |-> 2, has_cache |-> FALSE, max_size |-> 0])
    /\ ArbStart(0, 0)
    /\ QueryStart(NewBook(1), NewBook(1))
    /\ AggStart
    /\ EventStart
    /\ LruStart(0)
    /\ TimedStart(1, 0)
    /\ HbStart(1, 1)

RlSpec == RlInit /\ [][RlNext]_vars

\* the tokio runtime polls every task that can make progress
MgrFairSpec ==
    MgrInit /\ [][MgrNext]_vars /\ \A p \in Procs : WF_vars(Run(p))


HbInit ==
    /\ \E config \in MonitorConfigs : HbStart(config[1], config[2])
    /\ book = NewBook(1)
    /\ lastOp = NoOp
    /\ lastSnap = NoSnapshot
    /\ snapTimes = 0
    /\ lastLevels = <<>>
    /\ MgrStart([max_depth |-> 2, has_cache |-> FALSE, max_size |-> 0])
    /\ ArbStart(0, 0)
    /\ QueryStart(NewBook(1), NewBook(1))
    /\ AggStart
    /\ EventStart
    /\ LruStart(0)
    /\ TimedStart(1, 0)
    /\ LimiterStart(1, 1)

HbSpec == HbInit /\ [][HbNext]_vars

\* the runtime goes on polling each spawned task
HbFairSpec ==
    HbInit /\ [][HbNext]_vars /\ WF_vars(PingTask) /\ WF_vars(HealthCheck)
====
